---- MODULE Spec2Model ----
(***************************************************************************)
(* Verification model of tipech/spatialnet:                                *)
(*   - TrajectoryEdgeConverter.get_edge / get_edge_sorted                  *)
(*     (generators/trajectories/trajectory_edge_converter.py)              *)
(*   - BaseStream.fork, checkpoint, merge, store, load                     *)
(*     (common/generic/iterators/base_stream.py)                           *)
(*   - serialize_item / deserialize_item of Region- and Graph-streams      *)
(*     (common/regions/region.py, common/trajectories/                     *)
(*     trajectory_net_stream.py)                                           *)
(*   - Interval.is_intersecting, get_intersection, from_intersection       *)
(*     (common/regions/interval.py)                                        *)
(*                                                                         *)
(* The two edge extractors are Python generators.  A generator is modelled *)
(* by the steps between its suspension points: one action for the for-loop *)
(* taking the next snapshot graph from the input stream and running the    *)
(* loop body up to the first place where it can yield, one action for each *)
(* yield, and one action for the input stream raising StopIteration.       *)
(***************************************************************************)
EXTENDS Integers, Sequences, FiniteSets, TLC

VARIABLES
    snaps,          \* the snapshot graphs the input stream has delivered so far
    u_pc,           \* get_edge: "run" | "done" | "error"
    u_active,       \* get_edge: active, pair -> <<start, end>>
    u_prev_edges,   \* get_edge: prev_edges
    u_next_edges,   \* get_edge: next_edges
    u_todo,         \* get_edge: part of `prev_edges - next_edges` not yet iterated
    u_out,          \* get_edge: the records yielded so far
    u_out_at,       \* history: for each record of u_out, the number of
                    \* snapshots delivered when it was yielded
    s_pc,           \* get_edge_sorted: "run" | "done" | "error"
    s_active,       \* get_edge_sorted: active, pair -> list of <<start, end>>
    s_heap,         \* get_edge_sorted: heap of <<time, pair>>
    s_prev_edges,   \* get_edge_sorted: prev_edges
    s_next_edges,   \* get_edge_sorted: next_edges
    s_out,          \* get_edge_sorted: the records yielded so far
    s_out_at,       \* history: as u_out_at, for s_out
    f_streams,      \* BaseStream objects: stream id -> id of its `items` iterator
    f_iters,        \* iterator objects: iterator id -> [seq, pos]
    f_pc,           \* fork(): "init" | "returned" | "raised"
    f_handles,      \* the streams the consumer holds: handle -> stream id
    f_logs,         \* history: handle -> the items next() returned for it
    f_stopped,      \* history: the handles for which next() raised StopIteration
    f_expected,     \* history: the items that remained when fork() was called
    c_calls,        \* history: the checkpoint() calls made so far, each with
                    \* the items that remained before it and its outcome
    c_since,        \* history: number of next() calls since the last
                    \* checkpoint() call
    c_last,         \* history: the consumer's last call and what it raised
    m_other,        \* merge(): the argument `other`, an item
    m_cls,          \* merge(): stream id -> name of the stream's class
    m_result,       \* merge(): None before the call, then what it raised
                    \* and the iterators before and after the call
    io_op,          \* "store" | "load": the operation that is run
    io_src,         \* store: the items the stream produces; load: the items
                    \* of the document in the file
    io_given,       \* TRUE when `file` is passed as a file object
    io_cutoff,      \* TrajectoryNetStream.load: cutoff, or None
    io_pc,          \* position in store() / in load() and its generator
    io_pos,         \* number of items taken from io_src
    io_file,        \* store: the strings written to the file, in order
    io_out,         \* load: the items given to the consumer
    io_opens,       \* number of open() calls of the operation
    io_closes,      \* number of close() calls on the file
    io_raised,      \* what the operation raised, "" when nothing
    ser_item,       \* the Region or Graph that is serialized, if any
    ser_dict,       \* the dict of the item: serialized, or found in a file
    ser_back,       \* the item deserialize_item returned
    ser_pc,         \* "item" | "dict" | "deserialized" | "raised"
    ser_raised,     \* what deserialize_item raised, "" when nothing
    iv_op,          \* the Interval operation that is applied
    iv_list,        \* its Interval arguments, in order
    iv_inc,         \* its argument inc_bounds
    iv_result,      \* None before the call, then what it raised and returned
    rg_op,          \* the Region operation that is applied
    rg_regions,     \* its Region arguments, in order
    rg_inc,         \* its argument inc_bounds
    rg_result,      \* None before the call, then what it raised and returned
    pn_particles,   \* get_proximitynet: the Particles of the stream, in order
    pn_time,        \* get_proximitynet: stream.time
    pn_distance,    \* get_proximitynet: the argument distance
    pn_save,        \* get_proximitynet: the argument save_position
    pn_result,      \* None before the call, then the Graph it returned
    cb_items,       \* RegionStream: self.items, an iterator [seq, pos]
    cb_out,         \* history: the Regions next() returned, in order
    cb_result,      \* calculate_bounds: None before the call, then what it
                    \* raised and returned and the Regions that remained
    cv_frames,      \* the Frames given to frames_to_trajectories
    cv_trajectories, \* None, then the Trajectories it returned
    cv_back         \* None, then the Frames trajectories_to_frames returned
                    \* for these Trajectories

u_vars == <<u_pc, u_active, u_prev_edges, u_next_edges, u_todo, u_out,
           u_out_at>>
s_vars == <<s_pc, s_active, s_heap, s_prev_edges, s_next_edges, s_out,
           s_out_at>>
e_vars == <<snaps, u_vars, s_vars>>
f_vars == <<f_streams, f_iters, f_pc, f_handles, f_logs, f_stopped,
           f_expected>>
c_vars == <<c_calls, c_since, c_last>>
m_vars == <<m_other, m_cls, m_result>>
io_vars == <<io_op, io_src, io_given, io_cutoff, io_pc, io_pos, io_file,
            io_out, io_opens, io_closes, io_raised>>
ser_vars == <<ser_item, ser_dict, ser_back, ser_pc, ser_raised>>
iv_vars == <<iv_op, iv_list, iv_inc, iv_result>>
rg_vars == <<rg_op, rg_regions, rg_inc, rg_result>>
pn_vars == <<pn_particles, pn_time, pn_distance, pn_save, pn_result>>
cb_vars == <<cb_items, cb_out, cb_result>>
cv_vars == <<cv_frames, cv_trajectories, cv_back>>
y_vars == <<rg_vars, pn_vars, cb_vars, cv_vars>>
x_vars == <<c_vars, m_vars, io_vars, ser_vars, iv_vars, y_vars>>
vars == <<e_vars, f_vars, x_vars>>

-----------------------------------------------------------------------------
(* Bounds of the input domain *)

\* number of snapshots the input stream delivers at most, per specification
MaxSnapshots == 3
MaxSnapshotsSorted == 5
MaxSnapshotsBoth == 3
MaxSnapshotsPair == 7
\* largest difference between the timestamps of two consecutive snapshots
MaxGap == 2
\* number of items of the forked stream at most
MaxItems == 2
\* number of plain items of the nested streams of a stream at most
MaxInner == 3
\* number of checkpoint() calls at most
MaxCalls == 2
\* number of next() calls between two checkpoint() calls at most
MaxNexts == 2
\* number of items of a stored stream or document at most
MaxStored == 3
\* largest coordinate and largest time, in halves
MaxCoord == 3
\* number of dimensions of a Region at most
MaxDim == 2
\* number of Intervals given to from_intersection at most
MaxList == 3
\* largest coordinate of the Regions given to the Region operations, in
\* halves
MaxRgCoord == 2
\* largest coordinate of a Particle, in halves
MaxPosition == 2
\* largest distance threshold, in halves
MaxDistance == 3
\* number of Frames given to frames_to_trajectories at most
MaxFrames == 2

\* node ids of the snapshot graphs
Nodes == {1, 2, 3}
\* node ids of the snapshot graphs of the one-pair runs
PairNodes == {1, 2}
\* the dimensions of the Regions given to the Region operations
RgDimensions == {1, 2}

-----------------------------------------------------------------------------
(* Python values *)

\* Python's None / a present value, for the `end` slot of a contact period
None == <<>>
Some(v) == <<v>>

\* tuple(edge) in place of tuple(sorted(edge))
UnsortedEdge(edge) == edge

\* tuple(sorted(edge)) for a 2-tuple of node ids
SortedEdge(edge) ==
    IF edge[1] <= edge[2] THEN edge ELSE <<edge[2], edge[1]>>

\* set(tuple(sorted(edge)) for edge in G.edges)
EdgeSet(G) == {SortedEdge(edge) : edge \in G.edges}

\* the edge views an undirected networkx Graph over `nodes` can report:
\* every unordered pair is absent or reported once, in one of its two orders
RawEdges(nodes) == {e \in nodes \X nodes : e[1] # e[2]}
RawEdgeViews(nodes) ==
    {E \in SUBSET RawEdges(nodes) :
        \A e \in E : <<e[2], e[1]>> \notin E}
\* the edge views that report all their pairs in the same order: every
\* pair smaller id first, or every pair larger id first
UniformEdgeViews(nodes) ==
    {E \in RawEdgeViews(nodes) :
        \/ \A e \in E : e[1] < e[2]
        \/ \A e \in E : e[1] > e[2]}
\* the edge views that report every pair smaller id first
SortedEdgeViews(nodes) ==
    {E \in RawEdgeViews(nodes) : \A e \in E : e[1] < e[2]}

\* timestamps the next snapshot can carry: 0 for the first snapshot, then
\* the previous timestamp plus a gap in minGap..maxGap
NextTimes(minGap, maxGap) ==
    IF snaps = <<>> THEN {0}
    ELSE {snaps[Len(snaps)].time + d : d \in minGap..maxGap}

\* G.time of the snapshot the for-loop is at
GTime == snaps[Len(snaps)].time

\* dict without a key (del d[k])
DictDel(d, k) == [x \in (DOMAIN d) \ {k} |-> d[x]]

\* the contact-interval record of lines 68-69 / 120-121
EdgeDict(edge, first, last) ==
    [from |-> edge[1], to |-> edge[2], first |-> first, last |-> last]

\* `for edge in next_edges` in place of `next_edges - prev_edges`
OpenedEdgesAll(prev_edges, next_edges) == next_edges

\* line 62 / line 105: the edges the first loop iterates
OpenedEdges(prev_edges, next_edges) == next_edges \ prev_edges

\* `for edge in prev_edges` in place of `prev_edges - next_edges`
FinishedEdgesAll(prev_edges, next_edges) == prev_edges

\* line 66 / line 112: the edges the second loop iterates
FinishedEdges(prev_edges, next_edges) == prev_edges \ next_edges

-----------------------------------------------------------------------------
(* get_edge: unsorted mode *)

\* lines 54-63: the for-loop takes G from the stream, computes the edge sets
\* and opens an active record for every new edge; line 66 builds the set of
\* finished edges the second loop iterates
GetEdgeStep(G) ==
    /\ u_pc = "run"
    /\ u_todo = {}
    /\  LET prev == u_next_edges
            next == EdgeSet(G)
            opened == OpenedEdges(prev, next)
        IN  /\ u_prev_edges' = prev
            /\ u_next_edges' = next
            /\ u_active' = [e \in (DOMAIN u_active) \cup opened |->
                              IF e \in opened THEN <<G.time, None>>
                              ELSE u_active[e]]
            /\ u_todo' = FinishedEdges(prev, next)
            /\ UNCHANGED <<u_pc, u_out, u_out_at>>

\* the input stream delivers its next snapshot graph to get_edge
GetEdgePull(views, minGap, maxGap, maxSnap) ==
    /\ Len(snaps) < maxSnap
    /\ \E t \in NextTimes(minGap, maxGap), E \in views :
        LET G == [time |-> t, edges |-> E]
        IN  /\ snaps' = Append(snaps, G)
            /\ GetEdgeStep(G)

\* lines 66-71: one iteration of the loop over the finished edges, up to and
\* including the yield; a set is iterated in no particular order
GetEdgeYield ==
    /\ u_pc = "run"
    /\ u_todo # {}
    /\ \E edge \in u_todo :
        IF edge \notin DOMAIN u_active
        THEN \* KeyError at line 67
             /\ u_pc' = "error"
             /\ UNCHANGED <<snaps, u_active, u_prev_edges, u_next_edges,
                            u_todo, u_out, u_out_at>>
        ELSE LET closed == <<u_active[edge][1], Some(GTime - 1)>>
                 edge_dict == EdgeDict(edge, closed[1], closed[2])
             IN  /\ u_active' = DictDel(u_active, edge)
                 /\ u_out' = Append(u_out, edge_dict)
                 /\ u_out_at' = Append(u_out_at, Len(snaps))
                 /\ u_todo' = u_todo \ {edge}
                 /\ UNCHANGED <<snaps, u_pc, u_prev_edges, u_next_edges>>

\* line 54 when the stream is exhausted, line 73: the generator returns
GetEdgeEnd ==
    /\ u_pc = "run"
    /\ u_todo = {}
    /\ u_pc' = "done"
    /\ UNCHANGED <<snaps, u_active, u_prev_edges, u_next_edges, u_todo, u_out,
                   u_out_at>>

-----------------------------------------------------------------------------
(* get_edge_sorted: sorted mode *)

\* the order of Python tuples (time, (a, b))
EntryLess(x, y) ==
    \/ x[1] < y[1]
    \/ x[1] = y[1] /\ x[2][1] < y[2][1]
    \/ x[1] = y[1] /\ x[2][1] = y[2][1] /\ x[2][2] < y[2][2]

\* heapq.heappush(heap, entry): the heap is kept as the sequence of its
\* entries in increasing order, so that heap[0] is its first element and
\* heapq.heappop removes it
HeapPush(heap, entry) ==
    LET n == Cardinality({i \in 1..Len(heap) : ~EntryLess(entry, heap[i])})
    IN  SubSeq(heap, 1, n) \o <<entry>> \o SubSeq(heap, n + 1, Len(heap))

\* line 106 for every edge of the set `edges`
RECURSIVE HeapPushAll(_, _, _)
HeapPushAll(heap, time, edges) ==
    IF edges = {} THEN heap
    ELSE LET edge == CHOOSE e \in edges : TRUE
         IN  HeapPushAll(HeapPush(heap, <<time, edge>>), time, edges \ {edge})

\* [(G.time, None)] in place of active.get(edge, []) + [(G.time, None)]
OpenContactFresh(active, edge, time) == << <<time, None>> >>

\* line 109: active.get(edge, []) + [(G.time, None)]
OpenContact(active, edge, time) ==
    (IF edge \in DOMAIN active THEN active[edge] ELSE <<>>)
        \o << <<time, None>> >>

\* G.time in place of G.time - 1
CloseLastAtTime(contacts, time) ==
    [contacts EXCEPT ![Len(contacts)] = <<contacts[1][1], Some(time)>>]

\* lines 113-114: the new value of the last contact of the list
CloseLast(contacts, time) ==
    [contacts EXCEPT ![Len(contacts)] = <<contacts[1][1], Some(time - 1)>>]

\* active[edge].pop() in place of active[edge].pop(0)
PopContactLast(contacts) == contacts[Len(contacts)]

\* line 119: the contact active[edge].pop(0) returns
PopContact(contacts) == contacts[1]

\* line 119: the list active[edge].pop(0) leaves
PopRest(contacts) == SubSeq(contacts, 2, Len(contacts))

\* `if` in place of `while` at line 117: no second record is popped for
\* the same snapshot
HeadFinishedOnce ==
    /\ s_heap # <<>>
    /\ s_heap[1][2] \in DOMAIN s_active
    /\ s_active[s_heap[1][2]][1][2] # None
    /\ \A k \in 1..Len(s_out_at) : s_out_at[k] # Len(snaps)

\* line 117: the while condition; raises KeyError when the pair of the heap's
\* head is missing from active
HeadKeyError == s_heap # <<>> /\ s_heap[1][2] \notin DOMAIN s_active
HeadFinished ==
    /\ s_heap # <<>>
    /\ s_heap[1][2] \in DOMAIN s_active
    /\ s_active[s_heap[1][2]][1][2] # None

\* lines 97-114: the for-loop takes G from the stream, pushes and opens the
\* new edges and closes the finished ones
GetEdgeSortedStep(G) ==
    /\ s_pc = "run"
    /\ ~HeadKeyError /\ ~HeadFinished
    /\  LET prev == s_next_edges
            next == EdgeSet(G)
            opened == OpenedEdges(prev, next)
            finished == FinishedEdges(prev, next)
            active1 == [e \in (DOMAIN s_active) \cup opened |->
                          IF e \in opened
                          THEN OpenContact(s_active, e, G.time)
                          ELSE s_active[e]]
        IN  /\ s_prev_edges' = prev
            /\ s_next_edges' = next
            /\ s_heap' = HeapPushAll(s_heap, G.time, opened)
            /\ IF \E e \in finished : e \notin DOMAIN active1
               THEN \* KeyError at line 113
                    /\ s_pc' = "error"
                    /\ s_active' = active1
               ELSE /\ s_pc' = s_pc
                    /\ s_active' = [e \in DOMAIN active1 |->
                                      IF e \in finished
                                      THEN CloseLast(active1[e], G.time)
                                      ELSE active1[e]]
            /\ UNCHANGED <<s_out, s_out_at>>

\* the input stream delivers its next snapshot graph to get_edge_sorted
GetEdgeSortedPull(views, minGap, maxGap, maxSnap) ==
    /\ Len(snaps) < maxSnap
    /\ \E t \in NextTimes(minGap, maxGap), E \in views :
        LET G == [time |-> t, edges |-> E]
        IN  /\ snaps' = Append(snaps, G)
            /\ GetEdgeSortedStep(G)

\* lines 117-127: one iteration of the while loop, up to and including the
\* yield
GetEdgeSortedYield ==
    /\ s_pc = "run"
    /\ HeadKeyError \/ HeadFinished
    /\ IF HeadKeyError
       THEN /\ s_pc' = "error"
            /\ UNCHANGED <<snaps, s_active, s_heap, s_prev_edges,
                           s_next_edges, s_out, s_out_at>>
       ELSE LET edge == s_heap[1][2]
                contact == PopContact(s_active[edge])
                rest == PopRest(s_active[edge])
                edge_dict == EdgeDict(edge, contact[1], contact[2])
            IN  /\ s_heap' = Tail(s_heap)
                /\ s_active' = IF Len(rest) = 0
                               THEN DictDel(s_active, edge)
                               ELSE [s_active EXCEPT ![edge] = rest]
                /\ s_out' = Append(s_out, edge_dict)
                /\ s_out_at' = Append(s_out_at, Len(snaps))
                /\ UNCHANGED <<snaps, s_pc, s_prev_edges, s_next_edges>>

\* line 97 when the stream is exhausted, line 129: the generator returns
GetEdgeSortedEnd ==
    /\ s_pc = "run"
    /\ ~HeadKeyError /\ ~HeadFinished
    /\ s_pc' = "done"
    /\ UNCHANGED <<snaps, s_active, s_heap, s_prev_edges, s_next_edges, s_out,
                   s_out_at>>

-----------------------------------------------------------------------------
(* BaseStream.fork and BaseStream.__next__ *)

\* The Python objects are kept in a heap h = [streams, iters]: a BaseStream
\* is an index of h.streams, whose entry is the id of the iterator its
\* `items` attribute refers to; an iterator is an index of h.iters, whose
\* entry holds the sequence it iterates and the number of items it has given.
\* An item is a plain value or a reference to a BaseStream.
Leaf(v) == [kind |-> "leaf", v |-> v]
StreamRef(sid) == [kind |-> "stream", v |-> sid]

\* BaseStream.is_stream(target)
is_stream(target) == target.kind = "stream"

\* the items an iterator has not given yet
IterRest(h, it) ==
    SubSeq(h.iters[it].seq, h.iters[it].pos + 1, Len(h.iters[it].seq))

\* list(self.items): the iterator is run to its end
Drain(h, it) == [h EXCEPT !.iters[it].pos = Len(h.iters[it].seq)]

\* iter(seq): a new iterator object; its id is Len(.iters) of the result
NewIter(h, seq) ==
    [h EXCEPT !.iters = Append(@, [seq |-> seq, pos |-> 0])]

\* zip(*stream_list) gives both forks the first components
Item2Shared(stream_list) ==
    [k \in 1..Len(stream_list) |-> stream_list[k][1]]

\* line 107: item_1, item_2 = zip(*stream_list)
Item1(stream_list) == [k \in 1..Len(stream_list) |-> stream_list[k][1]]
Item2(stream_list) == [k \in 1..Len(stream_list) |-> stream_list[k][2]]

\* lines 99-117: self.fork(); the result is the heap after the call, whether
\* the call returned (ok) or raised, and the id of the copy
RECURSIVE ForkStream(_, _)
RECURSIVE ForkItems(_, _, _)
ForkStream(h, self) ==
    LET it == h.streams[self]
        item_list == IterRest(h, it)
        \* line 100: copy(self) is a new stream with the same `items`
        h1 == [Drain(h, it) EXCEPT !.streams = Append(@, it)]
        fork == Len(h1.streams)
    IN  IF Len(item_list) = 0
        THEN \* line 102: raise StopIteration
             [h |-> h1, ok |-> FALSE, fork |-> fork]
        ELSE IF is_stream(item_list[1])
        THEN LET r == ForkItems(h1, item_list, <<>>)
                 h2 == NewIter(r.h, Item1(r.stream_list))
                 h3 == NewIter(h2, Item2(r.stream_list))
             IN  IF ~r.ok
                 THEN [h |-> r.h, ok |-> FALSE, fork |-> fork]
                 ELSE [h |-> [h3 EXCEPT !.streams[self] = Len(h2.iters),
                                        !.streams[fork] = Len(h3.iters)],
                       ok |-> TRUE, fork |-> fork]
        ELSE LET h2 == NewIter(h1, item_list)
                 h3 == NewIter(h2, item_list)
             IN  [h |-> [h3 EXCEPT !.streams[self] = Len(h2.iters),
                                   !.streams[fork] = Len(h3.iters)],
                  ok |-> TRUE, fork |-> fork]

\* line 106: [stream.fork(True) for stream in item_list]; fork(True) returns
\* the pair (fork, self)
ForkItems(h, items, stream_list) ==
    IF items = <<>>
    THEN [h |-> h, ok |-> TRUE, stream_list |-> stream_list]
    ELSE LET stream == Head(items)
         IN  IF ~is_stream(stream)
             THEN \* AttributeError: the item has no fork()
                  [h |-> h, ok |-> FALSE, stream_list |-> stream_list]
             ELSE LET r == ForkStream(h, stream.v)
                  IN  IF ~r.ok
                      THEN [h |-> r.h, ok |-> FALSE,
                            stream_list |-> stream_list]
                      ELSE ForkItems(r.h, Tail(items),
                               Append(stream_list,
                                      <<StreamRef(r.fork), stream>>))

\* the values a stream of plain items will still give
LeafRest(h, sid) ==
    LET rest == IterRest(h, h.streams[sid])
    IN  [k \in 1..Len(rest) |-> rest[k].v]

\* what draining the stream gives: its remaining plain values, or for a
\* stream of streams the remaining plain values of each remaining item
DeepRest(h, sid) ==
    LET rest == IterRest(h, h.streams[sid])
    IN  [k \in 1..Len(rest) |->
            IF is_stream(rest[k]) THEN LeafRest(h, rest[k].v) ELSE rest[k].v]

Heap == [streams |-> f_streams, iters |-> f_iters]

\* the consumer calls fork() on the stream with id 1; it keeps the original
\* under the handle <<"self">> and the returned copy under <<"fork">>
Fork ==
    /\ f_pc = "init"
    /\ LET r == ForkStream(Heap, 1)
       IN  /\ f_streams' = r.h.streams
           /\ f_iters' = r.h.iters
           /\ f_pc' = IF r.ok THEN "returned" ELSE "raised"
           /\ f_handles' = IF r.ok
                           THEN (<<"self">> :> 1) @@ (<<"fork">> :> r.fork)
                           ELSE (<<"self">> :> 1)
           /\ f_logs' = [hd \in DOMAIN f_handles' |-> <<>>]
           /\ f_expected' = DeepRest(Heap, 1)
    /\ UNCHANGED <<f_stopped, e_vars, x_vars>>

\* lines 49-52: the consumer calls next() on a stream it holds; a stream it
\* is given as an item is held from then on, under the handle of the outer
\* stream extended by the item's position
Next(hd) ==
    /\ f_pc # "init"
    /\ hd \in DOMAIN f_handles
    /\ hd \notin f_stopped
    /\ LET it == f_streams[f_handles[hd]]
           rest == IterRest(Heap, it)
       IN  IF rest = <<>>
           THEN \* StopIteration
                /\ f_stopped' = f_stopped \cup {hd}
                /\ UNCHANGED <<f_streams, f_iters, f_pc, f_handles, f_logs,
                               f_expected>>
           ELSE /\ f_iters' = [f_iters EXCEPT ![it].pos = @ + 1]
                /\ f_handles' =
                      IF is_stream(rest[1])
                      THEN f_handles @@
                           (Append(hd, Len(f_logs[hd]) + 1) :> rest[1].v)
                      ELSE f_handles
                /\ f_logs' = [g \in DOMAIN f_handles' |->
                                IF g = hd THEN Append(f_logs[hd], rest[1].v)
                                ELSE IF g \in DOMAIN f_logs THEN f_logs[g]
                                ELSE <<>>]
                /\ UNCHANGED <<f_streams, f_pc, f_stopped, f_expected>>
    /\ UNCHANGED <<e_vars, x_vars>>

-----------------------------------------------------------------------------
(* BaseStream.checkpoint *)

\* the plain values of a list of plain items
Values(item_list) == [k \in 1..Len(item_list) |-> item_list[k].v]

\* line 74: item_list, iterators = zip(*stream_list)
CheckpointLists(stream_list) ==
    [k \in 1..Len(stream_list) |-> stream_list[k][1]]
CheckpointIterators(stream_list) ==
    [k \in 1..Len(stream_list) |-> stream_list[k][2]]

\* self.items = <plain items>, never rewound
KeepItems(h, self) == h

\* lines 77, 79: self.items = iter(...), the iterator created last
SetItems(h, self) == [h EXCEPT !.streams[self] = Len(h.iters)]

\* what next(self.items) raises when the iterator is exhausted
EndOfSequence == "StopIteration"

\* lines 67-84: self.checkpoint(); the result is the heap after the call,
\* whether the call returned (ok) or raised, and the list it returns
RECURSIVE CheckpointStream(_, _)
RECURSIVE CheckpointItems(_, _, _)
CheckpointStream(h, self) ==
    LET it == h.streams[self]
        item_list == IterRest(h, it)
        h1 == Drain(h, it)
    IN  IF Len(item_list) = 0
        THEN \* line 69: raise StopIteration
             [h |-> h1, ok |-> FALSE, item_list |-> <<>>]
        ELSE IF is_stream(item_list[1])
        THEN LET r == CheckpointItems(h1, item_list, <<>>)
                 h2 == NewIter(r.h, CheckpointIterators(r.stream_list))
             IN  IF ~r.ok
                 THEN [h |-> r.h, ok |-> FALSE, item_list |-> <<>>]
                 ELSE [h |-> SetItems(h2, self), ok |-> TRUE,
                       item_list |-> CheckpointLists(r.stream_list)]
        ELSE LET h2 == NewIter(h1, item_list)
             IN  [h |-> SetItems(h2, self), ok |-> TRUE,
                  item_list |-> Values(item_list)]

\* line 73: [stream.checkpoint(True) for stream in item_list];
\* checkpoint(True) returns the pair (item_list, self)
CheckpointItems(h, items, stream_list) ==
    IF items = <<>>
    THEN [h |-> h, ok |-> TRUE, stream_list |-> stream_list]
    ELSE LET stream == Head(items)
         IN  IF ~is_stream(stream)
             THEN \* AttributeError: the item has no checkpoint()
                  [h |-> h, ok |-> FALSE, stream_list |-> stream_list]
             ELSE LET r == CheckpointStream(h, stream.v)
                  IN  IF ~r.ok
                      THEN [h |-> r.h, ok |-> FALSE,
                            stream_list |-> stream_list]
                      ELSE CheckpointItems(r.h, Tail(items),
                               Append(stream_list, <<r.item_list, stream>>))

\* the consumer calls checkpoint() on the stream with id 1
Checkpoint ==
    /\ Len(c_calls) < MaxCalls
    /\ LET r == CheckpointStream(Heap, 1)
           raised == IF r.ok THEN "" ELSE "StopIteration"
           rest == IterRest(Heap, f_streams[1])
       IN  /\ f_streams' = r.h.streams
           /\ f_iters' = r.h.iters
           /\ c_calls' = Append(c_calls,
                            [before |-> DeepRest(Heap, 1),
                             nested |-> rest # <<>> /\ is_stream(rest[1]),
                             since |-> c_since,
                             raised |-> raised,
                             item_list |-> r.item_list])
           /\ c_since' = 0
           /\ c_last' = [op |-> "checkpoint", raised |-> raised]
    /\ UNCHANGED <<f_pc, f_handles, f_logs, f_stopped, f_expected, e_vars,
                   m_vars, io_vars, ser_vars, iv_vars, y_vars>>

\* lines 49-52: the consumer calls next() on the stream with id sid
CheckpointNext(sid) ==
    /\ sid \in 1..Len(f_streams)
    /\ c_since < MaxNexts
    /\ LET it == f_streams[sid]
       IN  IF IterRest(Heap, it) = <<>>
           THEN /\ c_last' = [op |-> "next", raised |-> EndOfSequence]
                /\ UNCHANGED f_iters
           ELSE /\ c_last' = [op |-> "next", raised |-> ""]
                /\ f_iters' = [f_iters EXCEPT ![it].pos = @ + 1]
    /\ c_since' = c_since + 1
    /\ UNCHANGED <<f_streams, f_pc, f_handles, f_logs, f_stopped, f_expected,
                   c_calls, e_vars, m_vars, io_vars, ser_vars, iv_vars,
                   y_vars>>

-----------------------------------------------------------------------------
(* BaseStream.merge *)

\* lines 10-12, 15: the names bound in the module base_stream
ModuleGlobals ==
    {"os", "json", "ijson", "collections", "copy", "SerializableObject",
     "IdObject", "BaseStream"}

\* line 137: the error of merging with something that is no stream
TypeMismatchError == "TypeError"

\* lines 135-139: what self.merge(other) raises ("" when it returns); the
\* call of chain looks the name up in the module's globals
MergeRaises(other) ==
    IF ~is_stream(other) THEN TypeMismatchError
    ELSE IF "chain" \notin ModuleGlobals THEN "NameError"
    ELSE ""

\* the consumer calls merge(other) on the stream with id 1
Merge ==
    /\ m_result = None
    /\ UNCHANGED <<f_vars, c_vars, m_other, m_cls, e_vars, io_vars,
                   ser_vars, iv_vars, y_vars>>
    /\ m_result' = Some([raised |-> MergeRaises(m_other),
                         before |-> f_iters, after |-> f_iters'])

-----------------------------------------------------------------------------
(* BaseStream.store *)

\* the strings store() writes around the items
Header == "{\"items\":[\n"
Comma == ",\n"
Footer == "]}"

\* lines 169-170: json.dumps(self.serialize_item(item), ...) of an item
ItemText(item) == ToString(item.v)

\* the frame of the store() and load() steps
IoFrame == UNCHANGED <<e_vars, f_vars, c_vars, m_vars, ser_vars, iv_vars,
                       y_vars,
                       io_op, io_src, io_given, io_cutoff>>

\* lines 178-179: the finally clause of store() when the try block raised
StoreRaise(exception) ==
    /\ io_raised' = exception
    /\ io_closes' = io_closes + 1
    /\ io_pc' = "raised"

\* lines 157-164: store() opens the file when it is given a path; len(file)
\* at line 157 raises TypeError for a file object, before the try block
StoreOpen ==
    /\ io_op = "store" /\ io_pc = "init"
    /\ IF io_given
       THEN /\ io_raised' = "TypeError"
            /\ io_pc' = "raised"
            /\ UNCHANGED io_opens
       ELSE /\ io_opens' = io_opens + 1
            /\ io_pc' = "try"
            /\ UNCHANGED io_raised
    /\ UNCHANGED <<io_pos, io_file, io_out, io_closes>>
    /\ IoFrame

\* line 167: the opening of the document
StoreHeader ==
    /\ io_op = "store" /\ io_pc = "try"
    /\ io_file' = Append(io_file, Header)
    /\ io_pc' = "first"
    /\ UNCHANGED <<io_pos, io_out, io_opens, io_closes, io_raised>>
    /\ IoFrame

\* line 168: item = next(self)
StorePullFirst ==
    /\ io_op = "store" /\ io_pc = "first"
    /\ IF io_pos = Len(io_src)
       THEN StoreRaise("StopIteration") /\ UNCHANGED io_pos
       ELSE /\ io_pos' = io_pos + 1
            /\ IF io_src[io_pos + 1].fault = "produce"
               THEN StoreRaise("ProducerError")
               ELSE io_pc' = "write" /\ UNCHANGED <<io_closes, io_raised>>
    /\ UNCHANGED <<io_file, io_out, io_opens>>
    /\ IoFrame

\* lines 169-170, 174-175: the item taken last is serialized and written
StoreWriteItem ==
    /\ io_op = "store" /\ io_pc = "write"
    /\ IF io_src[io_pos].fault = "serialize"
       THEN StoreRaise("TypeError") /\ UNCHANGED io_file
       ELSE /\ io_file' = Append(io_file, ItemText(io_src[io_pos]))
            /\ io_pc' = "loop"
            /\ UNCHANGED <<io_closes, io_raised>>
    /\ UNCHANGED <<io_pos, io_out, io_opens>>
    /\ IoFrame

\* lines 172-173, 177-179: the for-loop takes the next item and writes the
\* comma, or ends, and then the closing is written and the file closed
StorePull ==
    /\ io_op = "store" /\ io_pc = "loop"
    /\ IF io_pos = Len(io_src)
       THEN /\ io_file' = Append(io_file, Footer)
            /\ io_closes' = io_closes + 1
            /\ io_pc' = "done"
            /\ UNCHANGED <<io_pos, io_raised>>
       ELSE /\ io_pos' = io_pos + 1
            /\ IF io_src[io_pos + 1].fault = "produce"
               THEN StoreRaise("ProducerError") /\ UNCHANGED io_file
               ELSE /\ io_file' = Append(io_file, Comma)
                    /\ io_pc' = "write"
                    /\ UNCHANGED <<io_closes, io_raised>>
    /\ UNCHANGED <<io_out, io_opens>>
    /\ IoFrame

-----------------------------------------------------------------------------
(* BaseStream.load, TrajectoryNetStream.load *)

\* base_stream.py lines 196-205, trajectory_net_stream.py lines 113-125:
\* load() opens the file when it is given a path and returns a stream over
\* the generator read_file, which has not started
LoadOpen ==
    /\ io_op = "load" /\ io_pc = "init"
    /\ io_opens' = IF io_given THEN io_opens ELSE io_opens + 1
    /\ io_pc' = "created"
    /\ UNCHANGED <<io_pos, io_file, io_out, io_closes, io_raised>>
    /\ IoFrame

\* trajectory_net_stream.py line 121: the generator is resumed after a
\* yield and the item it gave has reached the cutoff
CutoffReached ==
    /\ io_pc = "yielded"
    /\ io_cutoff # None
    /\ io_src[io_pos].v >= io_cutoff[1]

\* the consumer calls next() on the loaded stream: read_file runs to its
\* next yield, to its end, or to an error of deserialize_item
LoadNext ==
    /\ io_op = "load" /\ io_pc \in {"created", "yielded"}
    /\ IF CutoffReached \/ io_pos = Len(io_src)
       THEN /\ io_pc' = "exhausted"
            /\ UNCHANGED <<io_pos, io_out, io_raised>>
       ELSE /\ io_pos' = io_pos + 1
            /\ IF io_src[io_pos + 1].fault = "deserialize"
               THEN /\ io_pc' = "failed"
                    /\ io_raised' = "KeyError"
                    /\ UNCHANGED io_out
               ELSE /\ io_pc' = "yielded"
                    /\ io_out' = Append(io_out, io_src[io_pos + 1].v)
                    /\ UNCHANGED io_raised
    /\ UNCHANGED <<io_file, io_opens, io_closes>>
    /\ IoFrame

\* the consumer stops before the stream is exhausted and closes the
\* generator: read_file has no finally clause
LoadAbandon ==
    /\ io_op = "load" /\ io_pc \in {"created", "yielded"}
    /\ io_pc' = "abandoned"
    /\ UNCHANGED <<io_pos, io_file, io_out, io_opens, io_closes, io_raised>>
    /\ IoFrame

-----------------------------------------------------------------------------
(* Numbers, Interval, Region and Graph objects and their dict forms *)

\* A number is kept as its count of halves: the integer n stands for n/2.
\* float(x) keeps the value of a number, int(x) cuts a non-negative number
\* down to a whole one.
ToFloat(x) == x
ToInt(x) == 2 * (x \div 2)

\* the elements of a set as a list, in some order
RECURSIVE SetToSeq(_)
SetToSeq(S) ==
    IF S = {} THEN <<>>
    ELSE LET x == CHOOSE y \in S : TRUE
         IN  <<x>> \o SetToSeq(S \ {x})
SeqToSet(seq) == {seq[k] : k \in 1..Len(seq)}

\* a dict without one of its keys
WithoutKey(d, key) == [k \in (DOMAIN d) \ {key} |-> d[k]]

\* interval.py lines 40-48: Interval(lower, upper)
Interval(lower, upper) ==
    IF ToFloat(lower) > ToFloat(upper)
    THEN [cls |-> "Interval",
          lower |-> ToFloat(upper), upper |-> ToFloat(lower)]
    ELSE [cls |-> "Interval",
          lower |-> ToFloat(lower), upper |-> ToFloat(upper)]

\* serializable_object.py line 34: the attributes of the Interval
IntervalToDict(i) == [lower |-> i.lower, upper |-> i.upper]

\* interval.py line 324: Interval(**dictObject)
IntervalFromDict(d) == Interval(d.lower, d.upper)

\* traced_object.py lines 35-43: the ancestors of an object made with the
\* argument `ancestors`, None or a list of ids
TracedAncestors(id, ancestors) ==
    IF ancestors = None THEN {id} ELSE SeqToSet(ancestors[1])

\* region.py lines 48-55: Region(factors, id, ancestors) for a list of
\* Intervals and a non-empty id
Region(factors, id, ancestors) ==
    [cls |-> "Region", id |-> id,
     ancestors |-> TracedAncestors(id, ancestors),
     factors |-> factors, dimension |-> Len(factors)]

\* serializable_object.py line 34: Pickler(unpicklable=False).flatten(self)
\* gives the attributes of the Region, its Intervals as dicts and its set
\* of ancestors as a list
RegionToDict(r) ==
    [id |-> r.id, ancestors |-> SetToSeq(r.ancestors),
     factors |-> [k \in 1..Len(r.factors) |-> IntervalToDict(r.factors[k])],
     dimension |-> r.dimension]

\* a dict that holds the factors of the Region and nothing else
FactorsOnly(r) == [factors |-> RegionToDict(r).factors]

\* region.py lines 581-585: what Region.from_dict raises, "" when it returns
RegionFromDictRaises(d) ==
    IF "factors" \notin DOMAIN d \/ "dimension" \notin DOMAIN d
    THEN "KeyError" ELSE ""

\* region.py lines 581-585: the Region Region.from_dict returns; uuid is the
\* id IdObject generates when the dict has none
RegionFromDict(d, uuid) ==
    Region([k \in 1..Len(d.factors) |-> IntervalFromDict(d.factors[k])],
           IF "id" \in DOMAIN d THEN d.id ELSE uuid,
           IF "ancestors" \in DOMAIN d THEN Some(d.ancestors) ELSE None)

\* trajectory_net_constructor.py lines 43-62: the Graph of the particles
\* `ids` at stream.time = time, `adj` the pairs closer than the distance
ProximityNet(time, ids, save_position, adj) ==
    [cls |-> "Graph", time |-> ToInt(ToFloat(time)),
     nodes |-> [n \in ids |-> IF save_position
                              THEN [pos |-> <<2 * n, n>>] ELSE <<>>],
     adj |-> adj]

\* trajectory_net_stream.py line 67, with the id as an attribute
NodeDictIdOnly(n, attrs) == [id |-> n]

\* trajectory_net_stream.py line 67: {'id': n[0], **n[1]}
NodeDict(n, attrs) == attrs @@ [id |-> n]

\* trajectory_net_stream.py lines 66-70: serialize_item(G); G.edges()
\* reports every edge once, as the tuples of `view`
GraphToDict(G, view) ==
    [time |-> G.time,
     nodes |-> LET ns == SetToSeq(DOMAIN G.nodes)
               IN  [k \in 1..Len(ns) |-> NodeDict(ns[k], G.nodes[ns[k]])],
     edges |-> LET es == SetToSeq(view)
               IN  [k \in 1..Len(es) |-> [from |-> es[k][1],
                                           to |-> es[k][2]]]]

\* the ways G.edges() can report the edges of G
EdgeViewsOf(G) ==
    {view \in SUBSET ((DOMAIN G.nodes) \X (DOMAIN G.nodes)) :
        /\ {{e[1], e[2]} : e \in view} = G.adj
        /\ Cardinality(view) = Cardinality(G.adj)}

\* trajectory_net_stream.py lines 88-93: deserialize_item(item_dict)
GraphFromDict(d) ==
    LET listed == {d.nodes[k].id : k \in 1..Len(d.nodes)}
        ends == UNION {{d.edges[k].from, d.edges[k].to} :
                          k \in 1..Len(d.edges)}
        dict_of(n) == d.nodes[CHOOSE k \in 1..Len(d.nodes) :
                                  /\ d.nodes[k].id = n
                                  /\ \A j \in (k + 1)..Len(d.nodes) :
                                        d.nodes[j].id # n]
    IN  [cls |-> "Graph", time |-> ToInt(ToFloat(d.time)),
         nodes |-> [n \in listed \cup ends |->
                      IF n \in listed THEN WithoutKey(dict_of(n), "id")
                      ELSE <<>>],
         adj |-> {{d.edges[k].from, d.edges[k].to} : k \in 1..Len(d.edges)}]

\* the frame of the serialization steps
SerFrame == UNCHANGED <<e_vars, f_vars, c_vars, m_vars, io_vars, iv_vars,
                        y_vars>>

\* serialize_item(item): base_stream.py lines 223-224 for a Region,
\* trajectory_net_stream.py lines 66-70 for a Graph
SerializeItem ==
    /\ ser_pc = "item"
    /\ \/ /\ ser_item.cls = "Region"
          /\ ser_dict' = RegionToDict(ser_item)
       \/ /\ ser_item.cls = "Graph"
          /\ \E view \in EdgeViewsOf(ser_item) :
                ser_dict' = GraphToDict(ser_item, view)
    /\ ser_pc' = "dict"
    /\ UNCHANGED <<ser_item, ser_back, ser_raised>>
    /\ SerFrame

\* the ids IdObject can generate
Uuids == {"uuid1", "uuid2"}

\* deserialize_item(item_dict): region_stream.py line 85 for a Region-stream,
\* trajectory_net_stream.py lines 88-93 for a Graph-stream
DeserializeItem ==
    /\ ser_pc = "dict"
    /\ IF "time" \in DOMAIN ser_dict
       THEN /\ ser_back' = GraphFromDict(ser_dict)
            /\ ser_pc' = "deserialized"
            /\ UNCHANGED ser_raised
       ELSE IF RegionFromDictRaises(ser_dict) # ""
       THEN /\ ser_raised' = RegionFromDictRaises(ser_dict)
            /\ ser_pc' = "raised"
            /\ UNCHANGED ser_back
       ELSE /\ \E uuid \in Uuids :
                  ser_back' = RegionFromDict(ser_dict, uuid)
            /\ ser_pc' = "deserialized"
            /\ UNCHANGED ser_raised
    /\ UNCHANGED <<ser_item, ser_dict>>
    /\ SerFrame

-----------------------------------------------------------------------------
(* Interval.is_intersecting, get_intersection, from_intersection *)

\* Python's max and min of two numbers
Max(x, y) == IF x >= y THEN x ELSE y
Min(x, y) == IF x <= y THEN x ELSE y

\* interval.py lines 99-103: self == other for two Intervals
IntervalEq(self, other) ==
    self.lower = other.lower /\ self.upper = other.upper

\* >= in place of > without inc_bounds
is_intersecting_inclusive(self, other, inc_bounds) ==
    \/ IntervalEq(self, other)
    \/ self.upper >= other.lower /\ other.upper >= self.lower

\* interval.py lines 231-237
is_intersecting(self, other, inc_bounds) ==
    IF IntervalEq(self, other) THEN TRUE
    ELSE IF inc_bounds
    THEN self.upper >= other.lower /\ other.upper >= self.lower
    ELSE self.upper > other.lower /\ other.upper > self.lower

\* interval.py lines 268-272
get_intersection(self, other, inc_bounds) ==
    IF ~is_intersecting(self, other, inc_bounds) THEN None
    ELSE Some(Interval(Max(self.lower, other.lower),
                       Min(self.upper, other.upper)))

\* functools.reduce(intersect, intervals) from the accumulated value acc,
\* None or Some(Interval); intersect is a.get_intersection(b), lines 299-300
RECURSIVE ReduceIntersect(_, _)
ReduceIntersect(acc, intervals) ==
    IF intervals = <<>> THEN [raised |-> "", value |-> acc]
    ELSE IF acc = None
    THEN \* None has no attribute get_intersection
         [raised |-> "AttributeError", value |-> None]
    ELSE ReduceIntersect(get_intersection(acc[1], Head(intervals), FALSE),
                         Tail(intervals))

\* interval.py lines 303-306: reduce without initial value; only
\* AssertionError is caught
from_intersection(intervals) ==
    IF intervals = <<>>
    THEN [raised |-> "TypeError", value |-> None]
    ELSE ReduceIntersect(Some(Head(intervals)), Tail(intervals))

\* the frame of the Interval operations
IvFrame == UNCHANGED <<e_vars, f_vars, c_vars, m_vars, io_vars, ser_vars,
                       y_vars,
                       iv_op, iv_list, iv_inc>>

\* a.is_intersecting(b, inc_bounds) is called
IsIntersecting ==
    /\ iv_op = "is_intersecting" /\ iv_result = None
    /\ iv_result' = Some([raised |-> "",
                          value |-> Some(is_intersecting(iv_list[1],
                                             iv_list[2], iv_inc))])
    /\ IvFrame

\* a.get_intersection(b, inc_bounds) is called
GetIntersection ==
    /\ iv_op = "get_intersection" /\ iv_result = None
    /\ iv_result' = Some([raised |-> "",
                          value |-> get_intersection(iv_list[1], iv_list[2],
                                                     iv_inc)])
    /\ IvFrame

\* Interval.from_intersection(intervals) is called
FromIntersection ==
    /\ iv_op = "from_intersection" /\ iv_result = None
    /\ iv_result' = Some(from_intersection(iv_list))
    /\ IvFrame

-----------------------------------------------------------------------------
(* Region.is_intersecting, get_intersection, from_intersection and sizes *)

\* the order of the ids of the Regions under sorted()
IdOrder == <<"a", "b">>

\* region.py line 556: sorted(r.id for r in regions), a list of ids of IdOrder
SortedIds(ids) ==
    LET copies(k) == SelectSeq(ids, LAMBDA i : i = IdOrder[k])
    IN  copies(1) \o copies(2)

\* region.py line 556: '_'.join(ids)
RECURSIVE JoinIds(_)
JoinIds(ids) ==
    IF ids = <<>> THEN ""
    ELSE IF Len(ids) = 1 THEN ids[1]
    ELSE ids[1] \o "_" \o JoinIds(Tail(ids))

\* traced_object.py lines 35-43: what TracedObject.__init__ raises when
\* `ancestors` is a list of sets of ids, "" when nothing. A set has no
\* attribute `ancestors`, so for a list that is not empty line 43 is run:
\* set(ancestors) of a list of sets raises TypeError, a set is unhashable.
\* For the empty list line 40 makes the empty set.
TracedOfSetsRaises(sets) == IF sets = <<>> THEN "" ELSE "TypeError"

\* interval.py line 65: the length of an Interval
IntervalLength(i) == IF i.upper >= i.lower THEN i.upper - i.lower
                     ELSE i.lower - i.upper

\* region.py line 121: reduce(lambda x, y: x * y, self.lengths); with the
\* lengths counted in halves the size of a Region of dimension d is
\* counted in 2^d-th parts
RECURSIVE Product(_)
Product(lengths) ==
    IF Len(lengths) = 1 THEN lengths[1]
    ELSE Product(SubSeq(lengths, 1, Len(lengths) - 1)) * lengths[Len(lengths)]
RegionSize(r) ==
    Product([d \in 1..Len(r.factors) |-> IntervalLength(r.factors[d])])

\* region.py line 501: Region.from_coords(lower, upper, id)
RegionFromCoords(lower, upper, id) ==
    Region([d \in 1..Min(Len(lower), Len(upper)) |->
                Interval(lower[d], upper[d])], id, None)

\* region.py lines 255-256: Region.is_intersecting(other, inc_bounds); the
\* Intervals are asked without the flag, and other.factors[i] raises
\* IndexError when other has less factors than self
RegionIsIntersecting(self, other, inc_bounds) ==
    IF Len(self.factors) > Len(other.factors)
    THEN [raised |-> "IndexError", value |-> None]
    ELSE [raised |-> "",
          value |-> Some(\A i \in 1..Len(self.factors) :
                            is_intersecting(self.factors[i],
                                            other.factors[i], FALSE))]

\* region.py lines 555-564: Region.from_intersection(regions) for a list of
\* one Region or more; zip stops at the Region of the least dimension
RegionFromIntersection(regions) ==
    LET n == Len(regions)
        id == JoinIds(SortedIds([k \in 1..n |-> regions[k].id]))
        least == CHOOSE m \in {Len(regions[k].factors) : k \in 1..n} :
                     \A k \in 1..n : m <= Len(regions[k].factors)
        factors == [d \in 1..least |->
                      from_intersection([k \in 1..n |->
                                             regions[k].factors[d]])]
        ancestors == [k \in 1..n |-> regions[k].ancestors]
    IN  IF \E d \in 1..least : factors[d].raised # ""
        THEN [raised |->
                 factors[CHOOSE d \in 1..least :
                            /\ factors[d].raised # ""
                            /\ \A e \in 1..(d - 1) : factors[e].raised = ""
                        ].raised,
              value |-> None]
        ELSE IF \E d \in 1..least : factors[d].value = None
        THEN [raised |-> "", value |-> None]
        ELSE IF TracedOfSetsRaises(ancestors) # ""
        THEN [raised |-> TracedOfSetsRaises(ancestors), value |-> None]
        ELSE \* traced_object.py line 40 has made the empty set
             [raised |-> "",
              value |-> Some([cls |-> "Region", id |-> id,
                              ancestors |-> {},
                              factors |-> [d \in 1..least |->
                                              factors[d].value[1]],
                              dimension |-> least])]

\* region.py lines 334-337: Region.get_intersection(other, inc_bounds)
RegionGetIntersection(self, other, inc_bounds) ==
    LET isx == RegionIsIntersecting(self, other, inc_bounds)
    IN  IF isx.raised # "" THEN isx
        ELSE IF ~isx.value[1] THEN [raised |-> "", value |-> None]
        ELSE RegionFromIntersection(<<self, other>>)

\* region.py lines 362-365: Region.get_intersection_size(other)
RegionGetIntersectionSize(self, other) ==
    LET isx == RegionIsIntersecting(self, other, FALSE)
        region == RegionGetIntersection(self, other, FALSE)
    IN  IF isx.raised # "" THEN isx
        ELSE IF ~isx.value[1] THEN [raised |-> "", value |-> Some(0)]
        ELSE IF region.raised # "" THEN region
        ELSE IF region.value = None
        THEN \* None has no attribute size
             [raised |-> "AttributeError", value |-> None]
        ELSE [raised |-> "", value |-> Some(RegionSize(region.value[1]))]

\* the names the body of get_union_size can read: its parameters and the
\* globals of region.py
UnionSizeNames ==
    {"self", "other", "reduce", "IdObject", "TracedObject",
     "SerializableObject", "Interval", "Region"}

\* region.py lines 408-411: Region.get_union_size(other); line 408 reads
\* the name `that`
RegionGetUnionSize(self, other) ==
    IF "that" \notin UnionSizeNames
    THEN [raised |-> "NameError", value |-> None]
    ELSE LET isx == RegionIsIntersecting(self, other, FALSE)
             isize == RegionGetIntersectionSize(self, other)
         IN  IF isx.raised # "" THEN isx
             ELSE IF ~isx.value[1]
             THEN [raised |-> "",
                   value |-> Some(RegionSize(self) + RegionSize(other))]
             ELSE IF "get_intersection_size" \notin UnionSizeNames
             THEN [raised |-> "NameError", value |-> None]
             ELSE IF isize.raised # "" THEN isize
             ELSE [raised |-> "",
                   value |-> Some(RegionSize(self) + RegionSize(other)
                                  - isize.value[1])]

\* the frame of the Region operations
RgFrame == UNCHANGED <<e_vars, f_vars, c_vars, m_vars, io_vars, ser_vars,
                       iv_vars, pn_vars, cb_vars, cv_vars,
                       rg_op, rg_regions, rg_inc>>

\* a.is_intersecting(b, inc_bounds) is called
RgIsIntersecting ==
    /\ rg_op = "is_intersecting" /\ rg_result = None
    /\ rg_result' = Some(RegionIsIntersecting(rg_regions[1], rg_regions[2],
                                              rg_inc))
    /\ RgFrame

\* a.get_intersection(b, inc_bounds) is called
RgGetIntersection ==
    /\ rg_op = "get_intersection" /\ rg_result = None
    /\ rg_result' = Some(RegionGetIntersection(rg_regions[1], rg_regions[2],
                                               rg_inc))
    /\ RgFrame

\* Region.from_intersection(regions) is called
RgFromIntersection ==
    /\ rg_op = "from_intersection" /\ rg_result = None
    /\ rg_result' = Some(RegionFromIntersection(rg_regions))
    /\ RgFrame

\* a.get_intersection_size(b) is called
RgGetIntersectionSize ==
    /\ rg_op = "get_intersection_size" /\ rg_result = None
    /\ rg_result' = Some(RegionGetIntersectionSize(rg_regions[1],
                                                   rg_regions[2]))
    /\ RgFrame

\* a.get_union_size(b) is called
RgGetUnionSize ==
    /\ rg_op = "get_union_size" /\ rg_result = None
    /\ rg_result' = Some(RegionGetUnionSize(rg_regions[1], rg_regions[2]))
    /\ RgFrame

-----------------------------------------------------------------------------
(* TrajectoryNetConstructor.get_proximitynet *)

\* scipy's pdist, squared: the sum of the squared differences of the
\* coordinates of two positions
SquaredDistance(p, q) ==
    LET sq(d) == (p[d] - q[d]) * (p[d] - q[d])
    IN  IF Len(p) = 1 THEN sq(1) ELSE sq(1) + sq(2)

\* <= in place of <
WithinOrAt(p, q, distance) ==
    distance >= 0 /\ SquaredDistance(p, q) <= distance * distance

\* trajectory_net_constructor.py lines 53-55: all_distances < distance for
\* one pair; the distance is a square root and never negative, and for
\* the small whole numbers of halves used here the square root and its
\* comparison are exact
Within(p, q, distance) ==
    distance > 0 /\ SquaredDistance(p, q) < distance * distance

\* trajectory_net_constructor.py line 54: combinations(range(len(pos)), 2)
Combinations(n) == {c \in (1..n) \X (1..n) : c[1] < c[2]}

\* trajectory_net_constructor.py lines 43-62: get_proximitynet(stream,
\* distance, save_position) for a stream with the Particles `particles`,
\* each with an id and a position, and stream.time = time
get_proximitynet(particles, time, distance, save_position) ==
    LET n == Len(particles)
        ids == {particles[k].id : k \in 1..n}
        \* add_nodes_from: a later Particle of the same id updates the node
        last(id) == CHOOSE k \in 1..n :
                       /\ particles[k].id = id
                       /\ \A j \in (k + 1)..n : particles[j].id # id
        valid_pairs == IF n > 1
                       THEN {c \in Combinations(n) :
                                Within(particles[c[1]].position,
                                       particles[c[2]].position, distance)}
                       ELSE {}
    IN  [cls |-> "Graph", time |-> ToInt(ToFloat(time)),
         nodes |-> [id \in ids |->
                       IF save_position
                       THEN [pos |-> particles[last(id)].position]
                       ELSE <<>>],
         adj |-> {{particles[c[1]].id, particles[c[2]].id} :
                     c \in valid_pairs}]

\* get_proximitynet(stream, distance, save_position) is called
GetProximityNet ==
    /\ pn_result = None
    /\ pn_result' = Some(get_proximitynet(pn_particles, pn_time, pn_distance,
                                          pn_save))
    /\ UNCHANGED <<e_vars, f_vars, c_vars, m_vars, io_vars, ser_vars,
                   iv_vars, rg_vars, cb_vars, cv_vars,
                   pn_particles, pn_time, pn_distance, pn_save>>

-----------------------------------------------------------------------------
(* RegionStream.calculate_bounds *)

\* list(self.items): the items an iterator [seq, pos] still has
Remaining(items) == SubSeq(items.seq, items.pos + 1, Len(items.seq))

\* the iterator is left as list() left it
ItemsLeftDrained(items, regions) ==
    [seq |-> items.seq, pos |-> Len(items.seq)]

\* region_stream.py line 62: self.items = iter(regions)
ItemsReset(items, regions) == [seq |-> regions, pos |-> 0]

\* Python's min and max of the numbers of a list that is not empty
MinOf(numbers) ==
    CHOOSE x \in SeqToSet(numbers) : \A y \in SeqToSet(numbers) : x <= y
MaxOf(numbers) ==
    CHOOSE x \in SeqToSet(numbers) : \A y \in SeqToSet(numbers) : x >= y

\* region_stream.py lines 64-69: the bounds of the Regions of a list that
\* is not empty; r.factors[d] raises IndexError when a Region has less
\* factors than the first one; uuid is the id IdObject generates
BoundsOf(regions, uuid) ==
    LET dimension == regions[1].dimension
        lower == [d \in 1..dimension |->
                     MinOf([k \in 1..Len(regions) |->
                               regions[k].factors[d].lower])]
        upper == [d \in 1..dimension |->
                     MaxOf([k \in 1..Len(regions) |->
                               regions[k].factors[d].upper])]
    IN  IF \E k \in 1..Len(regions) : Len(regions[k].factors) < dimension
        THEN [raised |-> "IndexError", value |-> None]
        ELSE [raised |-> "",
              value |-> Some(RegionFromCoords(lower, upper, uuid))]

\* region_stream.py lines 58-69: calculate_bounds(); the Regions that
\* remained and the number of Regions delivered so far are kept with
\* its outcome
CalculateBounds ==
    /\ LET regions == Remaining(cb_items)
       IN  IF Len(regions) = 0
           THEN /\ cb_items' = ItemsLeftDrained(cb_items, regions)
                /\ cb_result' = Some([raised |-> "StopIteration",
                                      value |-> None, before |-> regions,
                                      out_at |-> Len(cb_out)])
           ELSE /\ cb_items' = ItemsReset(cb_items, regions)
                /\ \E uuid \in Uuids :
                      cb_result' = Some(BoundsOf(regions, uuid) @@
                                        [before |-> regions,
                                         out_at |-> Len(cb_out)])
    /\ UNCHANGED <<e_vars, f_vars, c_vars, m_vars, io_vars, ser_vars,
                   iv_vars, rg_vars, pn_vars, cv_vars, cb_out>>

\* base_stream.py line 52: next(stream) returns a Region
RegionStreamNext ==
    /\ cb_items.pos < Len(cb_items.seq)
    /\ cb_items' = [cb_items EXCEPT !.pos = @ + 1]
    /\ cb_out' = Append(cb_out, cb_items.seq[cb_items.pos + 1])
    /\ UNCHANGED <<e_vars, f_vars, c_vars, m_vars, io_vars, ser_vars,
                   iv_vars, rg_vars, pn_vars, cv_vars, cb_result>>

-----------------------------------------------------------------------------
(* frames_to_trajectories and trajectories_to_frames *)

\* A dict is the list of its (key, value) pairs in the order in which the
\* keys were inserted. dict(pairs): a key that comes again keeps its place
\* and takes the new value.
RECURSIVE DictOf(_)
DictOf(pairs) ==
    IF pairs = <<>> THEN <<>>
    ELSE LET d == DictOf(SubSeq(pairs, 1, Len(pairs) - 1))
             kv == pairs[Len(pairs)]
         IN  IF \E k \in 1..Len(d) : d[k][1] = kv[1]
             THEN [k \in 1..Len(d) |-> IF d[k][1] = kv[1] THEN kv ELSE d[k]]
             ELSE Append(d, kv)

\* two dicts are equal when they hold the same pairs, in whatever order
DictEq(d1, d2) == SeqToSet(d1) = SeqToSet(d2)

\* frame.py lines 53-59, 81-90: Frame(time, particles) for a dict or a list
\* of (pID, pos) pairs, pos a list of numbers that is not empty; for two
\* pairs none of the column formats of lines 62-79 applies
Frame(time, particles) ==
    [cls |-> "Frame", time |-> time, data |-> DictOf(particles)]

\* frame.py line 95: self == other for two Frames
FrameEq(self, other) ==
    self.time = other.time /\ DictEq(self.data, other.data)

\* trajectory.py lines 51-57, 88-100: Trajectory(pID, trace) for a list of
\* (time, pos) pairs; the times are made ints and the coordinates floats
Trajectory(pID, trace) ==
    LET data == DictOf(trace)
    IN  [cls |-> "Trajectory", pID |-> pID,
         data |-> DictOf([k \in 1..Len(data) |->
                             <<ToInt(data[k][1]),
                               [c \in 1..Len(data[k][2]) |->
                                   ToFloat(data[k][2][c])]>>])]

\* conversion.py lines 27-28 and 58-59: the record a Frame gives for an
\* item (pID, pos), (pID, (f.time, pos)), and the record a Trajectory gives
\* for an item (time, pos), (time, (t.pID, pos))
RecordOf(o, item) ==
    <<item[1], <<IF o.cls = "Frame" THEN o.time ELSE o.pID, item[2]>>>>

\* pyfunctional's flat_map: the records of the items of the objects,
\* object after object
RECURSIVE FlatMapItems(_)
FlatMapItems(objects) ==
    IF objects = <<>> THEN <<>>
    ELSE LET o == Head(objects)
         IN  [k \in 1..Len(o.data) |-> RecordOf(o, o.data[k])]
             \o FlatMapItems(Tail(objects))

\* pyfunctional's group_by_key: the keys in the order of their first
\* record, each with the list of its values in the order of the records
RECURSIVE GroupByKey(_)
GroupByKey(records) ==
    IF records = <<>> THEN <<>>
    ELSE LET g == GroupByKey(SubSeq(records, 1, Len(records) - 1))
             r == records[Len(records)]
         IN  IF \E k \in 1..Len(g) : g[k][1] = r[1]
             THEN [k \in 1..Len(g) |->
                      IF g[k][1] = r[1]
                      THEN <<g[k][1], Append(g[k][2], r[2])>> ELSE g[k]]
             ELSE Append(g, <<r[1], <<r[2]>>>>)

\* the groups are left in the order of group_by_key
Unsorted(groups) == groups

\* pyfunctional's sorted() on (key, values) tuples with distinct whole keys
RECURSIVE Sorted(_)
Sorted(groups) ==
    IF groups = <<>> THEN <<>>
    ELSE LET least == CHOOSE k \in 1..Len(groups) :
                         \A j \in 1..Len(groups) : groups[k][1] <= groups[j][1]
         IN  <<groups[least]>>
             \o Sorted(SubSeq(groups, 1, least - 1)
                       \o SubSeq(groups, least + 1, Len(groups)))

\* conversion.py lines 27-33: frames_to_trajectories(frames) for a list
frames_to_trajectories(frames) ==
    LET records == FlatMapItems(frames)
        groups == Sorted(GroupByKey(records))
    IN  [k \in 1..Len(groups) |-> Trajectory(groups[k][1], groups[k][2])]

\* conversion.py lines 58-63: trajectories_to_frames(trajectories) for a
\* list
trajectories_to_frames(trajectories) ==
    LET records == FlatMapItems(trajectories)
        groups == Sorted(GroupByKey(records))
    IN  [k \in 1..Len(groups) |-> Frame(groups[k][1], groups[k][2])]

\* frames_to_trajectories(frames) is called
FramesToTrajectories ==
    /\ cv_trajectories = None
    /\ cv_trajectories' = Some(frames_to_trajectories(cv_frames))
    /\ UNCHANGED <<e_vars, f_vars, c_vars, m_vars, io_vars, ser_vars,
                   iv_vars, rg_vars, pn_vars, cb_vars, cv_frames, cv_back>>

\* trajectories_to_frames is called with the Trajectories it returned
TrajectoriesToFrames ==
    /\ cv_trajectories # None /\ cv_back = None
    /\ cv_back' = Some(trajectories_to_frames(cv_trajectories[1]))
    /\ UNCHANGED <<e_vars, f_vars, c_vars, m_vars, io_vars, ser_vars,
                   iv_vars, rg_vars, pn_vars, cb_vars, cv_frames,
                   cv_trajectories>>

-----------------------------------------------------------------------------
(* Specifications *)

\* no checkpoint() call has been made
IdleCheckpoint ==
    /\ c_calls = <<>>
    /\ c_since = 0
    /\ c_last = [op |-> "", raised |-> ""]

\* no stream is being merged
IdleMerge ==
    /\ m_other = Leaf(0)
    /\ m_cls = <<>>
    /\ m_result = None

\* nothing is stored or loaded
IdleIo ==
    /\ io_op = "" /\ io_src = <<>> /\ io_given = FALSE /\ io_cutoff = None
    /\ io_pc = "init" /\ io_pos = 0 /\ io_file = <<>> /\ io_out = <<>>
    /\ io_opens = 0 /\ io_closes = 0 /\ io_raised = ""

\* no item is serialized
NoItem == [cls |-> "none"]
IdleSer ==
    /\ ser_item = NoItem /\ ser_dict = <<>> /\ ser_back = NoItem
    /\ ser_pc = "idle" /\ ser_raised = ""

\* no Interval operation is applied
IdleIv ==
    /\ iv_op = "" /\ iv_list = <<>> /\ iv_inc = FALSE /\ iv_result = None

\* no Region operation is applied
IdleRg ==
    /\ rg_op = "" /\ rg_regions = <<>> /\ rg_inc = FALSE /\ rg_result = None

\* no proximity graph is built
IdlePn ==
    /\ pn_particles = <<>> /\ pn_time = 0 /\ pn_distance = 0
    /\ pn_save = FALSE /\ pn_result = None

\* no Region-stream is used
IdleCb ==
    /\ cb_items = [seq |-> <<>>, pos |-> 0] /\ cb_out = <<>>
    /\ cb_result = None

\* nothing is converted
IdleCv ==
    /\ cv_frames = <<>> /\ cv_trajectories = None /\ cv_back = None

\* the Region operations, the graph builder, the Region-stream and the
\* conversions are idle
IdleCalls == IdleRg /\ IdlePn /\ IdleCb /\ IdleCv

\* the components other than the edge extractors and fork() are idle
IdleRest ==
    /\ IdleCalls
    /\ IdleCheckpoint
    /\ IdleMerge
    /\ IdleIo
    /\ IdleSer
    /\ IdleIv

\* no stream is being forked
IdleFork ==
    /\ f_streams = <<>>
    /\ f_iters = <<>>
    /\ f_pc = "init"
    /\ f_handles = <<>>
    /\ f_logs = <<>>
    /\ f_stopped = {}
    /\ f_expected = <<>>

\* no extractor is running
IdleEdge ==
    /\ snaps = <<>>
    /\ u_pc = "run" /\ u_active = <<>> /\ u_prev_edges = {}
    /\ u_next_edges = {} /\ u_todo = {} /\ u_out = <<>> /\ u_out_at = <<>>
    /\ s_pc = "run" /\ s_active = <<>> /\ s_heap = <<>> /\ s_prev_edges = {}
    /\ s_next_edges = {} /\ s_out = <<>> /\ s_out_at = <<>>

InitEdge ==
    /\ IdleFork
    /\ IdleRest
    /\ snaps = <<>>
    /\ u_pc = "run"
    /\ u_active = <<>>
    /\ u_prev_edges = {}
    /\ u_next_edges = {}
    /\ u_todo = {}
    /\ u_out = <<>>
    /\ u_out_at = <<>>
    /\ s_pc = "run"
    /\ s_active = <<>>
    /\ s_heap = <<>>
    /\ s_prev_edges = {}
    /\ s_next_edges = {}
    /\ s_out = <<>>
    /\ s_out_at = <<>>

\* get_edge on snapshots over Nodes with non-decreasing timestamps
NextEdge ==
    \/ GetEdgePull(SortedEdgeViews(Nodes), 0, MaxGap, MaxSnapshots)
         /\ UNCHANGED <<s_vars, f_vars, x_vars>>
    \/ GetEdgeYield /\ UNCHANGED <<s_vars, f_vars, x_vars>>
    \/ GetEdgeEnd /\ UNCHANGED <<s_vars, f_vars, x_vars>>

SpecEdge == InitEdge /\ [][NextEdge]_vars

\* get_edge_sorted on snapshots over Nodes at consecutive timestamps
NextSorted ==
    \/ GetEdgeSortedPull(SortedEdgeViews(Nodes), 1, 1, MaxSnapshotsSorted)
         /\ UNCHANGED <<u_vars, f_vars, x_vars>>
    \/ GetEdgeSortedYield /\ UNCHANGED <<u_vars, f_vars, x_vars>>
    \/ GetEdgeSortedEnd /\ UNCHANGED <<u_vars, f_vars, x_vars>>

SpecSorted == InitEdge /\ [][NextSorted]_vars

\* both extractors side by side on the same snapshots: every snapshot is
\* delivered to both, each yields its records on its own
BothPull(views, minGap, maxGap, maxSnap) ==
    /\ Len(snaps) < maxSnap
    /\ \E t \in NextTimes(minGap, maxGap), E \in views :
        LET G == [time |-> t, edges |-> E]
        IN  /\ snaps' = Append(snaps, G)
            /\ GetEdgeStep(G)
            /\ GetEdgeSortedStep(G)

\* both modes on snapshots over Nodes at consecutive timestamps, the edges
\* reported in either order
NextBoth ==
    \/ BothPull(UniformEdgeViews(Nodes), 1, 1, MaxSnapshotsBoth)
         /\ UNCHANGED <<f_vars, x_vars>>
    \/ GetEdgeYield /\ UNCHANGED <<s_vars, f_vars, x_vars>>
    \/ GetEdgeEnd /\ UNCHANGED <<s_vars, f_vars, x_vars>>
    \/ GetEdgeSortedYield /\ UNCHANGED <<u_vars, f_vars, x_vars>>
    \/ GetEdgeSortedEnd /\ UNCHANGED <<u_vars, f_vars, x_vars>>

SpecBoth == InitEdge /\ [][NextBoth]_vars

\* get_edge_sorted on snapshots of one pair of nodes at consecutive timestamps
NextPair ==
    \/ GetEdgeSortedPull(RawEdgeViews(PairNodes), 1, 1, MaxSnapshotsPair)
         /\ UNCHANGED <<u_vars, f_vars, x_vars>>
    \/ GetEdgeSortedYield /\ UNCHANGED <<u_vars, f_vars, x_vars>>
    \/ GetEdgeSortedEnd /\ UNCHANGED <<u_vars, f_vars, x_vars>>

SpecPair == InitEdge /\ [][NextPair]_vars

\* a stream of plain items: items 1..n, of which the first p are consumed
FlatHeap(n, p) ==
    [streams |-> <<1>>,
     iters |-> << [seq |-> [k \in 1..n |-> Leaf(k)], pos |-> p] >>]

\* a stream of n streams of plain items; stream k + 1 is the k-th item, has
\* the items 10k+1 .. 10k+len[k], of which the first pos[k] are consumed;
\* of the outer stream the first p items are consumed
NestedHeap(n, p, len, pos) ==
    [streams |-> [k \in 1..(n + 1) |-> k],
     iters |-> [k \in 1..(n + 1) |->
                  IF k = 1
                  THEN [seq |-> [j \in 1..n |-> StreamRef(j + 1)], pos |-> p]
                  ELSE [seq |-> [j \in 1..len[k - 1] |->
                                    Leaf(10 * (k - 1) + j)],
                        pos |-> pos[k - 1]]]]

\* the number of plain items of the nested streams altogether
RECURSIVE InnerItems(_)
InnerItems(len) ==
    IF len = <<>> THEN 0 ELSE Head(len) + InnerItems(Tail(len))

InitialHeaps ==
    {FlatHeap(n, p) : n \in 0..MaxItems, p \in 0..MaxItems} \cup
    UNION {{NestedHeap(n, p, len, pos) :
               p \in 0..n,
               len \in {l \in [1..n -> 0..MaxInner] :
                           InnerItems(l) <= MaxInner},
               pos \in [1..n -> 0..1]} : n \in 1..MaxItems}

WellFormedHeap(h) ==
    \A it \in 1..Len(h.iters) : h.iters[it].pos <= Len(h.iters[it].seq)

InitFork ==
    /\ IdleEdge
    /\ IdleRest
    /\ \E h \in {g \in InitialHeaps : WellFormedHeap(g)} :
          /\ f_streams = h.streams
          /\ f_iters = h.iters
    /\ f_pc = "init"
    /\ f_handles = <<>>
    /\ f_logs = <<>>
    /\ f_stopped = {}
    /\ f_expected = <<>>

\* the handles of a stream, and of the streams it gives as items
Handles ==
    {<<"self">>, <<"fork">>} \cup
    {<<side, k>> : side \in {"self", "fork"}, k \in 1..(MaxItems + 1)}

NextFork ==
    \/ Fork
    \/ \E hd \in Handles : Next(hd)

SpecFork == InitFork /\ [][NextFork]_vars

\* checkpoint() and next() calls on a flat or nested stream, in any order
InitCheckpoint ==
    /\ IdleEdge
    /\ IdleRest
    /\ \E h \in {g \in InitialHeaps : WellFormedHeap(g)} :
          /\ f_streams = h.streams
          /\ f_iters = h.iters
    /\ f_pc = "init"
    /\ f_handles = <<>>
    /\ f_logs = <<>>
    /\ f_stopped = {}
    /\ f_expected = <<>>

NextCheckpoint ==
    \/ Checkpoint
    \/ \E sid \in 1..(MaxItems + 1) : CheckpointNext(sid)

SpecCheckpoint == InitCheckpoint /\ [][NextCheckpoint]_vars

\* two streams of plain items: stream 1 has the items 1..n1, stream 2 the
\* items 11..10+n2; p1 and p2 of them are consumed
TwoStreamHeap(n1, p1, n2, p2) ==
    [streams |-> <<1, 2>>,
     iters |-> << [seq |-> [k \in 1..n1 |-> Leaf(k)], pos |-> p1],
                  [seq |-> [k \in 1..n2 |-> Leaf(10 + k)], pos |-> p2] >>]

\* the classes of the streams that are merged
StreamClasses == {"RegionStream", "TrajectoryNetStream"}

\* merge() of a stream with another stream of the same or of another class,
\* or with something that is no stream; next() calls before and after it
InitMerge ==
    /\ IdleEdge
    /\ IdleCalls
    /\ IdleCheckpoint
    /\ IdleIo
    /\ IdleSer
    /\ IdleIv
    /\ \E n1 \in 0..MaxItems, n2 \in 0..MaxItems :
       \E p1 \in 0..n1, p2 \in 0..n2 :
          /\ f_streams = TwoStreamHeap(n1, p1, n2, p2).streams
          /\ f_iters = TwoStreamHeap(n1, p1, n2, p2).iters
    /\ f_pc = "init"
    /\ f_handles = <<>>
    /\ f_logs = <<>>
    /\ f_stopped = {}
    /\ f_expected = <<>>
    /\ m_other \in {StreamRef(2), Leaf(5)}
    /\ m_cls \in [1..2 -> StreamClasses]
    /\ m_result = None

NextMerge ==
    \/ Merge
    \/ \E sid \in 1..2 : CheckpointNext(sid)

SpecMerge == InitMerge /\ [][NextMerge]_vars

\* the item sequences of at most MaxStored items with the values 1, 2, ...,
\* each item sound or failing in one of the ways `faults`
ItemSeqs(faults) ==
    UNION {[1..n -> faults \cup {""}] : n \in 0..MaxStored}
SourceItems(fs) == [k \in 1..Len(fs) |-> [v |-> k, fault |-> fs[k]]]

\* store() of a stream whose producer or whose items may fail, and load()
\* of a document whose items may fail to deserialize, with or without cutoff
InitIo ==
    /\ IdleEdge /\ IdleFork /\ IdleCheckpoint /\ IdleMerge /\ IdleSer
    /\ IdleIv /\ IdleCalls
    /\ io_op \in {"store", "load"}
    /\ io_given \in BOOLEAN
    /\ \E fs \in ItemSeqs(IF io_op = "store"
                           THEN {"produce", "serialize"}
                           ELSE {"deserialize"}) :
          io_src = SourceItems(fs)
    /\ io_cutoff \in IF io_op = "store" THEN {None}
                     ELSE {None} \cup {Some(t) : t \in 1..MaxStored}
    /\ io_pc = "init" /\ io_pos = 0 /\ io_file = <<>> /\ io_out = <<>>
    /\ io_opens = 0 /\ io_closes = 0 /\ io_raised = ""

NextIo ==
    \/ StoreOpen
    \/ StoreHeader
    \/ StorePullFirst
    \/ StoreWriteItem
    \/ StorePull
    \/ LoadOpen
    \/ LoadNext
    \/ LoadAbandon

SpecIo == InitIo /\ [][NextIo]_vars

\* the numbers 0, 1/2, .., MaxCoord/2
Coords == 0..MaxCoord

\* the Regions made from at most MaxDim pairs of coordinates, with an id
\* and with or without given ancestors
Regions ==
    {Region([k \in 1..Len(fs) |-> Interval(fs[k][1], fs[k][2])], id, anc) :
        fs \in UNION {[1..n -> Coords \X Coords] : n \in 1..MaxDim},
        id \in {"a"},
        anc \in {None, Some(<<>>), Some(<<"a", "b">>)}}

\* the Graphs get_proximitynet makes of the particles of Nodes
ProximityNets ==
    {ProximityNet(time, ids, save, adj) :
        time \in Coords, ids \in SUBSET Nodes, save \in BOOLEAN,
        adj \in SUBSET {{a, b} : a, b \in Nodes}}

\* serialize_item and deserialize_item on the Regions of a Region-stream
\* and the Graphs of a Graph-stream, and deserialize_item on Region items
\* stored with their factors only
InitSer ==
    /\ IdleEdge /\ IdleFork /\ IdleCheckpoint /\ IdleMerge /\ IdleIo
    /\ IdleIv /\ IdleCalls
    /\ ser_back = NoItem
    /\ ser_raised = ""
    /\ \/ /\ ser_pc = "item"
          /\ ser_item \in Regions \cup
                {G \in ProximityNets :
                    \A e \in G.adj : Cardinality(e) = 2 /\ e \subseteq
                                                           DOMAIN G.nodes}
          /\ ser_dict = <<>>
       \/ /\ ser_pc = "dict"
          /\ ser_item = NoItem
          /\ ser_dict \in {FactorsOnly(r) : r \in Regions}

NextSer ==
    \/ SerializeItem
    \/ DeserializeItem

SpecSer == InitSer /\ [][NextSer]_vars

\* the Intervals with bounds in Coords
Intervals == {Interval(l, u) : l, u \in Coords}

\* is_intersecting and get_intersection on two Intervals with either flag,
\* from_intersection on a list of at most MaxList Intervals
InitIv ==
    /\ IdleEdge /\ IdleFork /\ IdleCheckpoint /\ IdleMerge /\ IdleIo
    /\ IdleSer /\ IdleCalls
    /\ iv_result = None
    /\ \/ /\ iv_op \in {"is_intersecting", "get_intersection"}
          /\ iv_list \in [1..2 -> Intervals]
          /\ iv_inc \in BOOLEAN
       \/ /\ iv_op = "from_intersection"
          /\ iv_list \in UNION {[1..n -> Intervals] : n \in 0..MaxList}
          /\ iv_inc = FALSE

NextIv ==
    \/ IsIntersecting
    \/ GetIntersection
    \/ FromIntersection

SpecIv == InitIv /\ [][NextIv]_vars

\* the Regions of one or two dimensions with bounds in 0..MaxRgCoord
RgRegions(id, ancestors) ==
    {Region([k \in 1..Len(fs) |-> Interval(fs[k][1], fs[k][2])],
            id, ancestors) :
        fs \in UNION {[1..n -> (0..MaxRgCoord) \X (0..MaxRgCoord)] :
                         n \in RgDimensions}}

\* the operations of a Region b, made from scratch or with two ancestors,
\* with a Region a made from scratch, and from_intersection on [b] and
\* on [b, a]
InitRg ==
    /\ IdleEdge /\ IdleFork /\ IdleCheckpoint /\ IdleMerge /\ IdleIo
    /\ IdleSer /\ IdleIv /\ IdlePn /\ IdleCb /\ IdleCv
    /\ rg_result = None
    /\ \E anc \in {None, Some(<<"p", "q">>)} :
       \E b \in RgRegions("b", anc), a \in RgRegions("a", None) :
          \/ /\ rg_op \in {"is_intersecting", "get_intersection"}
             /\ rg_regions = <<b, a>>
             /\ rg_inc \in BOOLEAN
          \/ /\ rg_op \in {"get_intersection_size", "get_union_size"}
             /\ rg_regions = <<b, a>>
             /\ rg_inc = FALSE
          \/ /\ rg_op = "from_intersection"
             /\ rg_regions \in {<<b>>, <<b, a>>}
             /\ rg_inc = FALSE

NextRg ==
    \/ RgIsIntersecting
    \/ RgGetIntersection
    \/ RgFromIntersection
    \/ RgGetIntersectionSize
    \/ RgGetUnionSize

SpecRg == InitRg /\ [][NextRg]_vars

\* the positions with coordinates in 0..MaxPosition, in halves
Positions == (0..MaxPosition) \X (0..MaxPosition)

\* the lists of Particles with the ids of a subset of Nodes, in the order
\* of their ids
ParticleLists ==
    UNION {LET ids == SetToSeq(S)
               sorted == [k \in 1..Len(ids) |->
                            CHOOSE id \in S :
                                Cardinality({j \in S : j < id}) = k - 1]
           IN  {[k \in 1..Len(ids) |-> [id |-> sorted[k], position |-> ps[k]]]
                   : ps \in [1..Len(ids) -> Positions]}
           : S \in SUBSET Nodes}

\* get_proximitynet on the snapshots of at most three Particles with
\* distinct ids, for the thresholds 0..MaxDistance in halves
InitPn ==
    /\ IdleEdge /\ IdleFork /\ IdleCheckpoint /\ IdleMerge /\ IdleIo
    /\ IdleSer /\ IdleIv /\ IdleRg /\ IdleCb /\ IdleCv
    /\ pn_particles \in ParticleLists
    /\ pn_time \in {0, 3}
    /\ pn_distance \in 0..MaxDistance
    /\ pn_save \in BOOLEAN
    /\ pn_result = None

NextPn == GetProximityNet

SpecPn == InitPn /\ [][NextPn]_vars

\* the dimensions of the Regions of the Region-streams, in their order
StreamShapes ==
    {<<>>, <<1>>, <<1, 1>>, <<1, 1, 1>>, <<2>>, <<2, 2>>, <<1, 2>>, <<2, 1>>}

\* the ids of the Regions of a Region-stream, in their order
StreamIds == <<"a", "b", "c">>

\* the lists of Regions of a shape, with bounds in 0..MaxRgCoord
RegionLists(shape) ==
    {[k \in 1..Len(shape) |->
         Region([d \in 1..shape[k] |-> Interval(fs[k][d][1], fs[k][d][2])],
                StreamIds[k], None)] :
        fs \in {f \in [1..Len(shape) ->
                         UNION {[1..n -> (0..MaxRgCoord) \X (0..MaxRgCoord)] :
                                   n \in RgDimensions}] :
                   \A k \in 1..Len(shape) : Len(f[k]) = shape[k]}}

\* calculate_bounds and next() on a Region-stream over an iterator
InitCb ==
    /\ IdleEdge /\ IdleFork /\ IdleCheckpoint /\ IdleMerge /\ IdleIo
    /\ IdleSer /\ IdleIv /\ IdleRg /\ IdlePn /\ IdleCv
    /\ \E shape \in StreamShapes :
          \E regions \in RegionLists(shape) :
             cb_items = [seq |-> regions, pos |-> 0]
    /\ cb_out = <<>>
    /\ cb_result = None

NextCb ==
    \/ CalculateBounds
    \/ RegionStreamNext

SpecCb == InitCb /\ [][NextCb]_vars

\* the whole timestamps of the Frames, in halves
FrameTimes == {0, 2, 4}

\* the dicts of the particles of PairNodes a Frame can be made of: the
\* particles present, in either order, each at one of two positions
ParticleDicts ==
    LET positions == {<<0, 0>>, <<2, 1>>}
    IN  {<<>>}
        \cup {<<<<n, p>>>> : n \in PairNodes, p \in positions}
        \cup {<<<<nm[1], p>>, <<nm[2], q>>>> :
                 nm \in {x \in PairNodes \X PairNodes : x[1] # x[2]},
                 p \in positions, q \in positions}

\* frames_to_trajectories on a list of at most MaxFrames Frames and
\* trajectories_to_frames on what it returns
InitCv ==
    /\ IdleEdge /\ IdleFork /\ IdleCheckpoint /\ IdleMerge /\ IdleIo
    /\ IdleSer /\ IdleIv /\ IdleRg /\ IdlePn /\ IdleCb
    /\ \E n \in 0..MaxFrames :
       \E times \in [1..n -> FrameTimes], dicts \in [1..n -> ParticleDicts] :
          cv_frames = [k \in 1..n |-> Frame(times[k], dicts[k])]
    /\ cv_trajectories = None
    /\ cv_back = None

NextCv ==
    \/ FramesToTrajectories
    \/ TrajectoriesToFrames

SpecCv == InitCv /\ [][NextCv]_vars

-----------------------------------------------------------------------------
(* What the delivered snapshots say, read off `snaps` alone *)

\* the unordered pairs of nodes, smaller id first
AllPairs == {e \in Nodes \X Nodes : e[1] < e[2]}

TimeOf(i) == snaps[i].time

\* the timestamps of the delivered snapshots are strictly increasing
StrictTimes == \A i \in 1..(Len(snaps) - 1) : TimeOf(i) < TimeOf(i + 1)

\* the pair is an edge of the i-th snapshot, reported in either order
Connected(e, i) ==
    /\ i \in 1..Len(snaps)
    /\ e \in snaps[i].edges \/ <<e[2], e[1]>> \in snaps[i].edges

\* a contact period of the pair opens at the i-th snapshot
Opens(e, i) == Connected(e, i) /\ ~Connected(e, i - 1)

\* the snapshots at which a contact period of the pair opens
OpenIdxs(e) == {i \in 1..Len(snaps) : Opens(e, i)}

\* the snapshot at which the period that opened at snapshot i closes: the
\* first later snapshot without the pair; 0 while the period is open
CloseIdx(e, i) ==
    LET later == {j \in (i + 1)..Len(snaps) : ~Connected(e, j)}
    IN  IF later = {} THEN 0
        ELSE CHOOSE j \in later : \A k \in later : j <= k

\* the snapshot at which the p-th contact period of the pair opens
NthOpen(e, p) ==
    CHOOSE i \in OpenIdxs(e) : Cardinality({k \in OpenIdxs(e) : k <= i}) = p

\* the snapshot at which the period that contains snapshot m opened
OpenIdxAt(e, m) ==
    CHOOSE i \in OpenIdxs(e) :
        i <= m /\ \A k \in i..m : Connected(e, k)

\* the indexes of the records of `out` that are about the pair
RecordIdxs(out, e) ==
    {k \in 1..Len(out) : out[k].from = e[1] /\ out[k].to = e[2]}

\* the index in `out` of the p-th record about the pair
NthRecord(out, e, p) ==
    CHOOSE k \in RecordIdxs(out, e) :
        Cardinality({j \in RecordIdxs(out, e) : j <= k}) = p

\* the record is the contact period of the pair that opened at snapshot i
\* and has closed: first is the timestamp of the opening snapshot, last the
\* timestamp of the closing snapshot minus 1
IsPeriodRecord(r, e, i) ==
    /\ CloseIdx(e, i) # 0
    /\ r = EdgeDict(e, TimeOf(i), Some(TimeOf(CloseIdx(e, i)) - 1))

-----------------------------------------------------------------------------
(* C1 *)

\* C1: in sorted mode, on snapshots with strictly increasing timestamps,
\* the emitted records are non-decreasing in `first`.
C1_SortedByFirst ==
    StrictTimes =>
        \A k \in 1..(Len(s_out) - 1) : s_out[k].first <= s_out[k + 1].first

-----------------------------------------------------------------------------
(* C2 *)

\* the pair reconnected at some snapshot while a record of one of its earlier
\* periods was not yet yielded, so that its list held more than one contact
ReconnectedBeforeFlush(e) ==
    \E i \in OpenIdxs(e) :
        Cardinality({j \in OpenIdxs(e) : j < i}) >
            Cardinality({k \in RecordIdxs(s_out, e) : s_out_at[k] < i})

\* C2: in sorted mode, when a pair reconnects before its earlier period was
\* flushed, each of its periods is emitted as its own record: the p-th record
\* of the pair has the timestamp of the snapshot at which the pair's p-th
\* period opened as `first` and the timestamp of the snapshot at which that
\* period closed, minus 1, as `last`.
C2_EachPeriodItsOwnRecord ==
    \A e \in AllPairs :
        ReconnectedBeforeFlush(e) =>
            \A p \in 1..Cardinality(RecordIdxs(s_out, e)) :
                /\ p <= Cardinality(OpenIdxs(e))
                /\ IsPeriodRecord(s_out[NthRecord(s_out, e, p)], e,
                                  NthOpen(e, p))

-----------------------------------------------------------------------------
(* C4 *)

\* C4: in sorted mode, whenever the while loop is about to pop the heap, the
\* period of the popped entry's pair that opened at the popped entry's time
\* has its end time recorded in `active`, and every emitted record has a
\* `last` that is not None.
C4_NeverPopsOpenPeriod ==
    /\ HeadFinished =>
          LET t == s_heap[1][1]
              e == s_heap[1][2]
              opening == {i \in OpenIdxs(e) : TimeOf(i) = t}
          IN  /\ opening # {}
              /\ \A i \in opening :
                    LET p == Cardinality({k \in OpenIdxs(e) : k <= i})
                        q == p - Cardinality(RecordIdxs(s_out, e))
                    IN  /\ q \in 1..Len(s_active[e])
                        /\ s_active[e][q][2] # None
    /\ \A k \in 1..Len(s_out) : s_out[k].last # None

\* a pop is due for a pair whose list holds a closed and an open period
C4_Witness ==
    /\ HeadFinished
    /\ Len(s_active[s_heap[1][2]]) > 1
    /\ s_active[s_heap[1][2]][Len(s_active[s_heap[1][2]])][2] = None
    /\ Len(s_out) > 0

-----------------------------------------------------------------------------
(* C3 *)

\* the pairs that are connected in the latest snapshot and were not in the
\* one before, and the other way round
NewlyConnected ==
    {e \in AllPairs :
        Connected(e, Len(snaps)) /\ ~Connected(e, Len(snaps) - 1)}
NewlyDisconnected ==
    {e \in AllPairs :
        Connected(e, Len(snaps) - 1) /\ ~Connected(e, Len(snaps))}

\* the records get_edge yielded while it was at the latest snapshot
LatestRecords == {k \in 1..Len(u_out) : u_out_at[k] = Len(snaps)}

\* C3: in unsorted mode, when a snapshot at time t has been processed, every
\* pair present now and absent before has the active record (t, None), every
\* pair present before and absent now has left `active` and got exactly one
\* record {first: the time its active record was opened, last: t - 1}, and
\* no other record was emitted for the snapshot.
C3_OpensAndCloses ==
    (Len(snaps) >= 1 /\ u_todo = {}) =>
        /\ \A e \in NewlyConnected :
              /\ e \in DOMAIN u_active
              /\ u_active[e] = <<TimeOf(Len(snaps)), None>>
        /\ \A e \in NewlyDisconnected :
              /\ e \notin DOMAIN u_active
              /\ Cardinality(RecordIdxs(u_out, e) \cap LatestRecords) = 1
              /\ \A k \in RecordIdxs(u_out, e) \cap LatestRecords :
                    u_out[k] =
                        EdgeDict(e, TimeOf(OpenIdxAt(e, Len(snaps) - 1)),
                                 Some(TimeOf(Len(snaps)) - 1))
        /\ Cardinality(LatestRecords) = Cardinality(NewlyDisconnected)

\* a snapshot that connected a pair and disconnected two others, one of
\* them connected for more than one snapshot, has been processed
C3_Witness ==
    /\ Len(snaps) >= 3
    /\ u_todo = {}
    /\ NewlyConnected # {}
    /\ Cardinality(NewlyDisconnected) = 2
    /\ Cardinality(LatestRecords) = 2
    /\ \E e \in NewlyDisconnected : OpenIdxAt(e, Len(snaps) - 1) < Len(snaps) - 1

-----------------------------------------------------------------------------
(* C5 *)

\* no record of `out` is about the period of the pair that is open at the
\* latest snapshot: the pair has fewer records than periods, and each of its
\* records starts before that period opened
NoRecordOfOpenPeriod(out, e) ==
    /\ Cardinality(RecordIdxs(out, e)) < Cardinality(OpenIdxs(e))
    /\ \A k \in RecordIdxs(out, e) :
          out[k].first < TimeOf(OpenIdxAt(e, Len(snaps)))

\* C5: in both modes, a period that is still open when the input is exhausted
\* is never emitted, and the extractor ends without raising an error.
C5_OpenPeriodDropped ==
    /\ u_pc # "error"
    /\ s_pc # "error"
    /\ \A e \in AllPairs :
          Connected(e, Len(snaps)) =>
              /\ u_pc = "done" => NoRecordOfOpenPeriod(u_out, e)
              /\ s_pc = "done" => NoRecordOfOpenPeriod(s_out, e)

\* both extractors have ended with a pair in its second period, and have
\* emitted the pair's first period
C5_Witness ==
    /\ u_pc = "done"
    /\ s_pc = "done"
    /\ \E e \in AllPairs :
          /\ Connected(e, Len(snaps))
          /\ Cardinality(OpenIdxs(e)) = 2
          /\ RecordIdxs(u_out, e) # {}
          /\ RecordIdxs(s_out, e) # {}

-----------------------------------------------------------------------------
(* C6 *)

\* the snapshots delivered so far are the first ones of scenario 3: the pair
\* (1,2) connected at times 0-2, disconnected at 3 and 4, connected at 5-6
Scenario3 == <<TRUE, TRUE, TRUE, FALSE, FALSE, TRUE, TRUE>>
InScenario3 ==
    /\ Len(snaps) <= Len(Scenario3)
    /\ \A i \in 1..Len(snaps) :
          /\ TimeOf(i) = i - 1
          /\ Connected(<<1, 2>>, i) <=> Scenario3[i]

\* C6: in scenario 3 the sorted extractor emits exactly the record
\* {first: 0, last: 2}; it has emitted it before the period starting at 5
\* opens, and it ends without a record for that period.
C6_Scenario3 ==
    InScenario3 =>
        LET rec == EdgeDict(<<1, 2>>, 0, Some(2))
        IN  /\ s_out \in {<<>>, <<rec>>}
            /\ Len(snaps) >= 6 => s_out = <<rec>>
            /\ s_pc = "done" /\ Len(snaps) >= 4 => s_out = <<rec>>
            /\ s_pc # "error"

\* the stream of scenario 3 has ended
C6_Witness ==
    /\ InScenario3
    /\ Len(snaps) = Len(Scenario3)
    /\ s_pc = "done"

-----------------------------------------------------------------------------
(* C7 *)

-----------------------------------------------------------------------------
(* C8 *)

-----------------------------------------------------------------------------
(* C9 *)

\* the records of `out` about the two nodes of the pair, in either order
RecordIdxsEitherOrder(out, e) ==
    RecordIdxs(out, e) \cup RecordIdxs(out, <<e[2], e[1]>>)

\* the pair is reported in one order in snapshot n - 1 and in the other
\* order in snapshot n
Flipped(e, n) ==
    /\ n \in 2..Len(snaps)
    /\ \/ e \in snaps[n - 1].edges /\ <<e[2], e[1]>> \in snaps[n].edges
       \/ <<e[2], e[1]>> \in snaps[n - 1].edges /\ e \in snaps[n].edges

\* C9: a pair reported as (a,b) in one snapshot and as (b,a) in the next is
\* continuously connected for both modes: no record closes it at the second
\* snapshot, no period of it opens there, and every emitted record has
\* from <= to.
C9_OrderIndependentPairs ==
    /\ \A k \in 1..Len(u_out) : u_out[k].from <= u_out[k].to
    /\ \A k \in 1..Len(s_out) : s_out[k].from <= s_out[k].to
    /\ \A e \in AllPairs : \A n \in 2..Len(snaps) :
          Flipped(e, n) =>
              /\ \A k \in RecordIdxsEitherOrder(u_out, e) :
                    /\ u_out_at[k] # n
                    /\ u_out[k].first # TimeOf(n)
              /\ \A k \in RecordIdxsEitherOrder(s_out, e) :
                    /\ s_out[k].last # Some(TimeOf(n) - 1)
                    /\ s_out[k].first # TimeOf(n)
              /\ \A k \in 1..Len(s_heap) :
                    s_heap[k] \notin {<<TimeOf(n), e>>,
                                      <<TimeOf(n), <<e[2], e[1]>> >>}
              /\ n = Len(snaps) =>
                    /\ e \in DOMAIN u_active
                    /\ u_active[e] = <<TimeOf(OpenIdxAt(e, n)), None>>
                    /\ e \in DOMAIN s_active
                    /\ s_active[e][Len(s_active[e])][2] = None

\* a pair was reported in the two orders in consecutive snapshots, then
\* disconnected, and both modes have emitted its record
C9_Witness ==
    \E e \in AllPairs : \E n \in 2..Len(snaps) :
        /\ Flipped(e, n)
        /\ ~Connected(e, Len(snaps))
        /\ RecordIdxs(u_out, e) # {}
        /\ RecordIdxs(s_out, e) # {}

-----------------------------------------------------------------------------
(* C10 *)

\* what the stream held under the handle had to give when fork() was called
ExpectedOf(hd) ==
    IF Len(hd) = 1 THEN f_expected ELSE f_expected[hd[2]]

\* the handle's stream is a stream of streams
HoldsStreams(hd) ==
    \E k \in 1..Len(f_iters[f_streams[f_handles[hd]]].seq) :
        is_stream(f_iters[f_streams[f_handles[hd]]].seq[k])

\* C10: after fork() has returned, under every interleaving of next() calls,
\* what each held stream has given so far followed by what it will still
\* give is what was left when fork() was called: the original and the fork
\* each give the remaining items in order, a nested stream obtained from one
\* of them gives the items of the corresponding remaining item, and no call
\* on one stream changes what another one gives.
C10_ForksIndependent ==
    f_pc = "returned" =>
        \A hd \in DOMAIN f_handles :
            LET E == ExpectedOf(hd)
                given == f_logs[hd]
                rest == DeepRest(Heap, f_handles[hd])
            IN  /\ Len(given) + Len(rest) = Len(E)
                /\ \A k \in 1..Len(rest) : rest[k] = E[Len(given) + k]
                /\ ~HoldsStreams(hd) =>
                      \A k \in 1..Len(given) : given[k] = E[k]
                /\ hd \in f_stopped => Len(given) = Len(E)

\* both forks of a stream of two streams have given a nested stream, and a
\* nested stream of each has been advanced
C10_Witness ==
    /\ f_pc = "returned"
    /\ Len(f_expected) = 2
    /\ \E k \in 1..2 :
          /\ <<"self", k>> \in DOMAIN f_handles
          /\ <<"fork", k>> \in DOMAIN f_handles
          /\ Len(f_logs[<<"self", k>>]) = 2
          /\ Len(f_logs[<<"fork", k>>]) = 1
    /\ <<"fork">> \in f_stopped

-----------------------------------------------------------------------------
(* C11: checkpoint() is idempotent *)

\* the checkpoint() calls that came right after a returned checkpoint() call,
\* with no next() call in between
SecondInARow == {k \in 2..Len(c_calls) :
                    c_calls[k].since = 0 /\ c_calls[k - 1].raised = ""}

\* the sequence has no remaining item, or it is nested and one of its
\* remaining nested sequences has none
HasEmptySequence(c) ==
    \/ c.before = <<>>
    \/ c.nested /\ \E j \in 1..Len(c.before) : c.before[j] = <<>>

\* C11: a checkpoint() call returns unless the sequence, or one of its nested
\* sequences, has no remaining item; the list it returns is the items that
\* remained before the call, in order (for a nested sequence, the list of the
\* remaining items of each remaining nested sequence); and a checkpoint()
\* call right after a returned one returns the same list again.
C11_CheckpointIdempotent ==
    /\ \A k \in 1..Len(c_calls) :
          /\ c_calls[k].raised = "" <=> ~HasEmptySequence(c_calls[k])
          /\ c_calls[k].raised = "" => c_calls[k].item_list = c_calls[k].before
    /\ \A k \in SecondInARow :
          /\ c_calls[k].raised = ""
          /\ c_calls[k].item_list = c_calls[k - 1].item_list

\* two checkpoint() calls in a row on a nested sequence of two sequences,
\* made after a next() call, have both returned
C11_Witness ==
    /\ SecondInARow = {2}
    /\ c_calls[1].nested
    /\ c_calls[1].since > 0
    /\ Len(c_calls[2].item_list) = 2

-----------------------------------------------------------------------------
(* C12: checkpoint() on an empty sequence *)

\* C12: a checkpoint() call on a sequence with no remaining item raises an
\* error that differs from the signal next() gives past exhaustion.
C12_EmptyCheckpointDistinct ==
    \A k \in 1..Len(c_calls) :
        c_calls[k].before = <<>> =>
            c_calls[k].raised \notin {"", EndOfSequence}

-----------------------------------------------------------------------------
(* C13, C14: merge() *)

\* merge() was called with a stream of the same class / with something that
\* is no stream or is a stream of another class
MergedCompatible ==
    /\ m_result # None
    /\ is_stream(m_other)
    /\ m_cls[m_other.v] = m_cls[1]
MergedIncompatible ==
    /\ m_result # None
    /\ ~is_stream(m_other) \/ m_cls[m_other.v] # m_cls[1]

\* C13: merge(other) with a stream of the same item type returns (a
\* sequence over the remaining items of self, then those of other).
C13_MergeReturnsConcatenation ==
    MergedCompatible => m_result[1].raised = ""

\* C14: merge(other) with something that is no stream, or with a stream of
\* another item type, raises the type mismatch error and consumes no item of
\* either operand.
C14_MergeTypeMismatch ==
    MergedIncompatible =>
        /\ m_result[1].raised = TypeMismatchError
        /\ m_result[1].after = m_result[1].before

-----------------------------------------------------------------------------
(* C15, C16: store() and load() *)

\* the operation is over: store() returned or raised, the loaded stream is
\* exhausted, failed or was abandoned
IoEnded == io_pc \in {"done", "raised", "exhausted", "failed", "abandoned"}

\* C15: the file that store() or load() opened is never closed twice, and
\* it is closed once the operation is over, however it ended.
C15_ReleasedExactlyOnce ==
    /\ io_closes <= 1
    /\ IoEnded /\ io_opens = 1 => io_closes = 1

\* the document of the items with the texts `texts`
RECURSIVE CommaJoined(_)
CommaJoined(texts) ==
    IF Len(texts) <= 1 THEN texts
    ELSE <<Head(texts), Comma>> \o CommaJoined(Tail(texts))
Document(texts) == <<Header>> \o CommaJoined(texts) \o <<Footer>>

\* the number of items written to the file
ItemsWritten ==
    Cardinality({k \in 1..Len(io_file) :
                    io_file[k] \notin {Header, Comma, Footer}})

\* C16: store() to a file path of a stream whose items are all sound, also
\* of one with no item, ends with the complete document in the file:
\* opening, the items in production order joined by commas, closing; and no
\* item is taken from the producer before the one taken before it is
\* written.
C16_CompleteDocument ==
    (io_op = "store" /\ ~io_given) =>
        /\ io_pos <= ItemsWritten + 1
        /\ (IoEnded /\ \A k \in 1..Len(io_src) : io_src[k].fault = "") =>
              io_file = Document([k \in 1..Len(io_src) |->
                                     ItemText(io_src[k])])

-----------------------------------------------------------------------------
(* C17, C18: serialization of items *)

\* C17: deserialize_item(serialize_item(x)) is x again: for a Region the
\* same factors (and dimension, id and ancestors), for a Graph the same
\* time, the same nodes with the same attributes and the same edges.
C17_RoundTrip ==
    (ser_pc \in {"deserialized", "raised"} /\ ser_item # NoItem) =>
        /\ ser_pc = "deserialized"
        /\ ser_back = ser_item

\* a Graph with two edges or more and positions on its nodes has made the
\* round trip
C17_Witness ==
    /\ ser_pc = "deserialized"
    /\ ser_item.cls = "Graph"
    /\ Cardinality(ser_item.adj) >= 2
    /\ \E n \in DOMAIN ser_item.nodes : "pos" \in DOMAIN ser_item.nodes[n]
    /\ ser_back.cls = "Graph"

\* C18: a Region item stored with its factors only deserializes to a Region
\* whose dimension is the number of factors, and the dict of a serialized
\* Region holds no dimension.
C18_DimensionNotStored ==
    /\ (ser_item = NoItem /\ ser_pc \in {"deserialized", "raised"}) =>
          /\ ser_pc = "deserialized"
          /\ ser_back.dimension = Len(ser_dict.factors)
    /\ (ser_item # NoItem /\ ser_item.cls = "Region" /\ ser_pc # "item") =>
          "dimension" \notin DOMAIN ser_dict

-----------------------------------------------------------------------------
(* C19: Interval.is_intersecting and get_intersection *)

\* the call has been made: its arguments and what it returned
IvDone(op) == iv_op = op /\ iv_result # None
IvA == iv_list[1]
IvB == iv_list[2]
IvValue == iv_result[1].value

\* the two Intervals meet in one endpoint only
Touching(a, b) ==
    ~IntervalEq(a, b) /\ (a.upper = b.lower \/ b.upper = a.lower)

\* what get_intersection gives for the bounds (l1, u1), (l2, u2) in whole
\* numbers: the bounds of the result, or <<>> for None
Example(l1, u1, l2, u2, inc_bounds) ==
    LET r == get_intersection(Interval(2 * l1, 2 * u1),
                              Interval(2 * l2, 2 * u2), inc_bounds)
    IN  IF r = None THEN <<>> ELSE <<r[1].lower, r[1].upper>>

\* C19: equal Intervals intersect with either flag; Intervals that only
\* touch intersect with inc_bounds and do not without; get_intersection is
\* None exactly when is_intersecting is false under the same flag and is
\* otherwise Interval(max of lowers, min of uppers); and the three examples.
C19_IntersectionRules ==
    /\ IvDone("is_intersecting") =>
          /\ IntervalEq(IvA, IvB) => IvValue = Some(TRUE)
          /\ Touching(IvA, IvB) => IvValue = Some(iv_inc)
    /\ IvDone("get_intersection") =>
          /\ IvValue = None <=> ~is_intersecting(IvA, IvB, iv_inc)
          /\ IvValue # None =>
                /\ IvValue[1].lower = Max(IvA.lower, IvB.lower)
                /\ IvValue[1].upper = Min(IvA.upper, IvB.upper)
                /\ IvValue[1].lower <= IvValue[1].upper
    /\ Example(0, 10, 5, 15, FALSE) = <<10, 20>>
    /\ Example(0, 5, 5, 10, FALSE) = <<>>
    /\ Example(0, 5, 5, 10, TRUE) = <<10, 10>>

\* get_intersection without inc_bounds was called on two Intervals that
\* only touch, one of them of length zero
C19_Witness ==
    /\ IvDone("get_intersection")
    /\ ~iv_inc
    /\ Touching(IvA, IvB)
    /\ IvB.lower = IvB.upper
    /\ IvValue = None

-----------------------------------------------------------------------------
(* C20: Interval.from_intersection *)

\* the left fold of pairwise intersection that stops with None at the first
\* pair that does not intersect
RECURSIVE LeftFold(_, _)
LeftFold(acc, intervals) ==
    IF intervals = <<>> \/ acc = None THEN acc
    ELSE LeftFold(get_intersection(acc[1], Head(intervals), FALSE),
                  Tail(intervals))

\* C20: from_intersection on a list of one Interval or more returns the left
\* fold of pairwise intersection, None when a step of the fold fails,
\* wherever in the list; on the empty list it raises an error.
C20_FromIntersectionFold ==
    IvDone("from_intersection") =>
        IF iv_list = <<>>
        THEN iv_result[1].raised # ""
        ELSE /\ iv_result[1].raised = ""
             /\ IvValue = LeftFold(Some(Head(iv_list)), Tail(iv_list))

-----------------------------------------------------------------------------
(* C21, C22, C23: intersection, provenance and union size of Regions *)

\* the call has been made: its arguments and what it raised and returned
RgDone(op) == rg_op = op /\ rg_result # None
RgA == rg_regions[1]
RgB == rg_regions[2]
RgRaised == rg_result[1].raised
RgValue == rg_result[1].value
EqualDimension == RgA.dimension = RgB.dimension

\* every pair of Intervals of the same dimension intersects under the flag
EveryPairIntersects(a, b, inc_bounds) ==
    \A d \in 1..a.dimension :
        is_intersecting(a.factors[d], b.factors[d], inc_bounds)

\* the Intervals in which the factors of a and b intersect, dimension by
\* dimension
PairwiseIntersections(a, b, inc_bounds) ==
    [d \in 1..a.dimension |->
        get_intersection(a.factors[d], b.factors[d], inc_bounds)[1]]

\* C21: for Regions A, B of equal dimension, A.is_intersecting(B) equals
\* B.is_intersecting(A) and is true exactly when the Intervals of every
\* dimension intersect; A.get_intersection(B) returns None exactly when
\* A.is_intersecting(B) is false and returns otherwise a Region with the
\* intersections of the Intervals as its factors.
C21_RegionIntersection ==
    /\ (RgDone("is_intersecting") /\ EqualDimension /\ ~rg_inc) =>
          /\ RgRaised = ""
          /\ RgValue = RegionIsIntersecting(RgB, RgA, rg_inc).value
          /\ RgValue[1] <=> EveryPairIntersects(RgA, RgB, FALSE)
    /\ (RgDone("get_intersection") /\ EqualDimension /\ ~rg_inc) =>
          /\ RgRaised = ""
          /\ RgValue = None <=>
                ~RegionIsIntersecting(RgA, RgB, rg_inc).value[1]
          /\ RgValue # None =>
                /\ RgValue[1].cls = "Region"
                /\ RgValue[1].factors =
                      PairwiseIntersections(RgA, RgB, rg_inc)

\* the ancestors of all the Regions of a list
AncestorsOf(regions) ==
    UNION {regions[k].ancestors : k \in 1..Len(regions)}

\* from_intersection of the Regions has something to return: they have one
\* dimension and the Intervals of every dimension intersect
HaveIntersection(regions) ==
    /\ \A k \in 1..Len(regions) : regions[k].dimension = regions[1].dimension
    /\ \A d \in 1..regions[1].dimension :
          LET r == from_intersection([k \in 1..Len(regions) |->
                                         regions[k].factors[d]])
          IN  r.raised = "" /\ r.value # None

\* C22: a Region made from scratch has the set of its own id as ancestors;
\* the Region get_intersection or from_intersection makes of Regions has
\* the union of the ancestors of these Regions as ancestors, a set of ids.
C22_Provenance ==
    /\ \A k \in 1..Len(rg_regions) :
          rg_regions[k].id = "a" => rg_regions[k].ancestors = {"a"}
    /\ ((RgDone("get_intersection") \/ RgDone("from_intersection"))
        /\ ~rg_inc /\ HaveIntersection(rg_regions)) =>
          /\ RgRaised = ""
          /\ RgValue # None
          /\ RgValue[1].ancestors = AncestorsOf(rg_regions)

\* the size of the part two Regions of one dimension have in common
OverlapSize(a, b) ==
    IF EveryPairIntersects(a, b, FALSE)
    THEN Product([d \in 1..a.dimension |->
                     IntervalLength(PairwiseIntersections(a, b, FALSE)[d])])
    ELSE 0

\* a.get_union_size(b) for two squares given by their whole coordinates
\* returns the value v
UnionSizeExample(l1, u1, l2, u2, v) ==
    LET r == RegionGetUnionSize(
                 RegionFromCoords(<<2 * l1, 2 * l1>>, <<2 * u1, 2 * u1>>, "a"),
                 RegionFromCoords(<<2 * l2, 2 * l2>>, <<2 * u2, 2 * u2>>, "b"))
    IN  r.raised = "" /\ r.value = Some(4 * v)

\* C23: get_union_size returns size(self) + size(other) for disjoint
\* Regions and size(self) + size(other) - intersection size otherwise; for
\* from_coords([0,0],[10,10]) and from_coords([5,5],[15,15]) it returns 175.
C23_UnionSize ==
    /\ (RgDone("get_union_size") /\ EqualDimension) =>
          /\ RgRaised = ""
          /\ RgValue = Some(RegionSize(RgA) + RegionSize(RgB)
                            - OverlapSize(RgA, RgB))
    /\ UnionSizeExample(0, 10, 5, 15, 175)

-----------------------------------------------------------------------------
(* C24: the proximity graph of a snapshot *)

\* the Graph get_proximitynet returned
PnGraph == pn_result[1]

\* the edges of the Graph made of Particles 0, 1, 2, .. at whole
\* coordinates with a whole threshold
ProximityExample(positions, threshold) ==
    get_proximitynet([k \in 1..Len(positions) |->
                         [id |-> k - 1,
                          position |-> <<2 * positions[k][1],
                                         2 * positions[k][2]>>]],
                     0, 2 * threshold, FALSE).adj

\* C24: the proximity graph has the ids of the Particles as nodes and an
\* edge between two Particles exactly when their Euclidean distance is
\* less than the threshold, none when it equals the threshold; it has no
\* edge from a node to itself, also for no or one Particle; Particles at
\* (0,0), (1,0), (100,100) with threshold 2 give the one edge {0, 1}.
C24_ProximityGraph ==
    /\ pn_result # None =>
          /\ DOMAIN PnGraph.nodes =
                {pn_particles[k].id : k \in 1..Len(pn_particles)}
          /\ \A i, j \in 1..Len(pn_particles) :
                i # j =>
                   ({pn_particles[i].id, pn_particles[j].id} \in PnGraph.adj
                    <=> /\ pn_distance > 0
                        /\ SquaredDistance(pn_particles[i].position,
                                           pn_particles[j].position)
                              < pn_distance * pn_distance)
          /\ \A e \in PnGraph.adj :
                /\ Cardinality(e) = 2
                /\ e \subseteq DOMAIN PnGraph.nodes
          /\ Len(pn_particles) <= 1 => PnGraph.adj = {}
    /\ ProximityExample(<<<<0, 0>>, <<1, 0>>, <<100, 100>>>>, 2) = {{0, 1}}

\* a Graph of three Particles was built: two are closer than the threshold
\* and have an edge, two are as far from each other as the threshold and
\* have none
C24_Witness ==
    /\ pn_result # None
    /\ Len(pn_particles) = 3
    /\ PnGraph.adj # {}
    /\ \E i, j \in 1..3 :
          /\ i # j
          /\ SquaredDistance(pn_particles[i].position,
                             pn_particles[j].position)
                = pn_distance * pn_distance
          /\ {pn_particles[i].id, pn_particles[j].id} \notin PnGraph.adj

-----------------------------------------------------------------------------
(* C25: calculate_bounds of a Region-stream *)

\* the last calculate_bounds() call: what remained before it, what it
\* returned, and what the stream has delivered since
CbCall == cb_result[1]
CbSince == SubSeq(cb_out, CbCall.out_at + 1, Len(cb_out))
OneDimension(regions) ==
    \A k \in 1..Len(regions) : regions[k].dimension = regions[1].dimension

\* C25: on a Region-stream that is not empty calculate_bounds returns the
\* Region whose lower vector is the least lower of the Regions in every
\* dimension and whose upper vector is their greatest upper, so it
\* encloses every Region; the stream then delivers the same Regions in the
\* same order as it would have before the call.
C25_BoundsAndReplay ==
    (cb_result # None /\ CbCall.before # <<>> /\ OneDimension(CbCall.before))
    => /\ CbCall.raised = ""
       /\ CbCall.value # None
       /\ LET bounds == CbCall.value[1]
              regions == CbCall.before
          IN  /\ bounds.cls = "Region"
              /\ bounds.dimension = regions[1].dimension
              /\ \A d \in 1..bounds.dimension :
                    /\ \E k \in 1..Len(regions) :
                          bounds.factors[d].lower = regions[k].factors[d].lower
                    /\ \E k \in 1..Len(regions) :
                          bounds.factors[d].upper = regions[k].factors[d].upper
                    /\ \A k \in 1..Len(regions) :
                          /\ bounds.factors[d].lower
                                <= regions[k].factors[d].lower
                          /\ regions[k].factors[d].upper
                                <= bounds.factors[d].upper
       /\ CbSince \o Remaining(cb_items) = CbCall.before

\* calculate_bounds was called on a stream with two Regions left, neither
\* enclosing the other, and the stream has delivered both since
C25_Witness ==
    /\ cb_result # None
    /\ Len(CbCall.before) = 2
    /\ CbCall.out_at = 1
    /\ CbCall.value # None
    /\ CbCall.value[1] \notin
          {[r EXCEPT !.id = CbCall.value[1].id,
                     !.ancestors = CbCall.value[1].ancestors] :
              r \in SeqToSet(CbCall.before)}
    /\ CbSince = CbCall.before
    /\ Remaining(cb_items) = <<>>

-----------------------------------------------------------------------------
(* C26: frames_to_trajectories and trajectories_to_frames *)

\* the Frames have distinct times and are given in the order of their times
IncreasingTimes(frames) ==
    \A k \in 1..(Len(frames) - 1) : frames[k].time < frames[k + 1].time

\* the ids of the particles of the Frames
ParticleIds(frames) ==
    UNION {{frames[k].data[j][1] : j \in 1..Len(frames[k].data)} :
              k \in 1..Len(frames)}

\* the (time, position) pairs a particle has in the Frames
PairsOf(frames, id) ==
    UNION {{<<frames[k].time, frames[k].data[j][2]>> :
               j \in {i \in 1..Len(frames[k].data) :
                         frames[k].data[i][1] = id}} :
              k \in 1..Len(frames)}

\* one Trajectory per particle of the Frames, in the order of the ids, with
\* the (time, position) pairs of the particle
RegroupedByParticle(frames, trajectories) ==
    /\ Len(trajectories) = Cardinality(ParticleIds(frames))
    /\ \A k \in 1..Len(trajectories) :
          /\ trajectories[k].cls = "Trajectory"
          /\ trajectories[k].pID \in ParticleIds(frames)
          /\ SeqToSet(trajectories[k].data)
                = PairsOf(frames, trajectories[k].pID)
    /\ \A k \in 1..(Len(trajectories) - 1) :
          trajectories[k].pID < trajectories[k + 1].pID

\* two lists of Frames are equal
FramesEq(l1, l2) ==
    /\ Len(l1) = Len(l2)
    /\ \A k \in 1..Len(l1) : FrameEq(l1[k], l2[k])

\* what the two conversions give for Frames with increasing times
InverseRegroupings ==
    IncreasingTimes(cv_frames) =>
       /\ cv_trajectories # None =>
             RegroupedByParticle(cv_frames, cv_trajectories[1])
       /\ cv_back # None => FramesEq(cv_back[1], cv_frames)

\* C26 as stated: for a list of Frames with distinct times in increasing
\* order frames_to_trajectories returns one Trajectory per particle, sorted
\* by id, with the (time, position) pairs of the particle, and
\* trajectories_to_frames of the result returns the list of Frames.
C26_AsStated == InverseRegroupings

\* no Frame of the list is without particles
NoEmptyFrame(frames) == \A k \in 1..Len(frames) : frames[k].data # <<>>

\* C26: for a list of Frames with distinct times in increasing order
\* frames_to_trajectories returns one Trajectory per particle, sorted by
\* id, with the (time, position) pairs of the particle; when every Frame
\* of the list has one particle or more, trajectories_to_frames of the
\* result returns the list of Frames.
C26_InverseRegroupings ==
    /\ NoEmptyFrame(cv_frames) => InverseRegroupings
    /\ (IncreasingTimes(cv_frames) /\ cv_trajectories # None) =>
          RegroupedByParticle(cv_frames, cv_trajectories[1])

\* two Frames with increasing times were converted and converted back:
\* the first holds particle 2 only, the second particles 2 and 1, in
\* this order
C26_Witness ==
    /\ cv_back # None
    /\ Len(cv_frames) = 2
    /\ IncreasingTimes(cv_frames)
    /\ Len(cv_frames[1].data) = 1 /\ cv_frames[1].data[1][1] = 2
    /\ Len(cv_frames[2].data) = 2 /\ cv_frames[2].data[1][1] = 2
    /\ Len(cv_trajectories[1]) = 2

-----------------------------------------------------------------------------
(* C27: the extractors pull one snapshot at a time *)

\* the pair is an edge of snapshot i - 1 and no edge of snapshot i
Disconnects(e, i) == Connected(e, i - 1) /\ ~Connected(e, i)

\* get_edge still has a record to deliver for the latest snapshot: a pair
\* that disconnects there has no record delivered while it was the latest
UnsortedPending ==
    \E e \in AllPairs :
        /\ Disconnects(e, Len(snaps))
        /\ \A k \in RecordIdxs(u_out, e) : u_out_at[k] # Len(snaps)

\* get_edge_sorted still has a record to deliver: the first period of the
\* pair at the head of the heap is closed
SortedPending ==
    /\ s_heap # <<>>
    /\ s_heap[1][2] \in DOMAIN s_active
    /\ s_active[s_heap[1][2]][1][2] # None

\* a step that takes snapshots from the input takes one, and takes it when
\* neither extractor has a record to deliver
PullsOneWhenDrained ==
    Len(snaps') # Len(snaps) =>
        /\ Len(snaps') = Len(snaps) + 1
        /\ ~UnsortedPending
        /\ ~SortedPending

\* a step that delivers a record takes no snapshot from the input, and the
\* record is of a period that closed at the latest snapshot (get_edge) or
\* not after it (get_edge_sorted)
DeliversFromLatest ==
    /\ Len(u_out') # Len(u_out) =>
          /\ snaps' = snaps
          /\ Len(u_out') = Len(u_out) + 1
          /\ LET r == u_out'[Len(u_out')]
             IN  /\ Disconnects(<<r.from, r.to>>, Len(snaps))
                 /\ r.last = Some(TimeOf(Len(snaps)) - 1)
    /\ Len(s_out') # Len(s_out) =>
          /\ snaps' = snaps
          /\ Len(s_out') = Len(s_out) + 1
          /\ LET r == s_out'[Len(s_out')]
             IN  /\ r.last # None
                 /\ r.last[1] < TimeOf(Len(snaps))

\* C27: either extractor takes snapshots from the input one at a time and
\* only when it has no record left to deliver, so a request for the next
\* record reads the input up to the first snapshot that produces a record
\* and no further, and all records of a snapshot are delivered before the
\* next snapshot is taken.
C27_PullBased == [][PullsOneWhenDrained /\ DeliversFromLatest]_vars

\* both extractors have delivered two records for one snapshot, and a
\* further snapshot has been taken since
C27_Witness ==
    /\ Len(u_out) >= 2 /\ u_out_at[1] = u_out_at[2]
    /\ Len(s_out) >= 2 /\ s_out_at[1] = s_out_at[2]
    /\ Len(snaps) > u_out_at[2]
    /\ Len(snaps) > s_out_at[2]

-----------------------------------------------------------------------------
(* C28: sorted mode and the periods closed before the input ends *)

\* the snapshots at which a contact period of the pair opens that has
\* closed: the pair was seen to disconnect in a later snapshot
ClosedPeriods(e) == {i \in OpenIdxs(e) : CloseIdx(e, i) # 0}

\* C28: when get_edge_sorted has returned, it has emitted a record for
\* every period that was closed during the stream: every pair has as many
\* records as it has closed periods, also when a pair that opened earlier
\* is still open at the end of the input.
C28_ClosedPeriodsEmitted ==
    s_pc = "done" =>
        \A e \in AllPairs :
            Cardinality(RecordIdxs(s_out, e)) >= Cardinality(ClosedPeriods(e))

-----------------------------------------------------------------------------
(* C29: the records of the two modes *)

\* how often a record occurs in a sequence of records
Occurrences(out, r) == Cardinality({k \in 1..Len(out) : out[k] = r})

\* C29: run on the same snapshots, get_edge_sorted emits the records
\* get_edge emits, each as often: when both have returned, the multisets of
\* their (from, to, first, last) records are equal.
C29_SameRecords ==
    (u_pc = "done" /\ s_pc = "done") =>
        \A r \in SeqToSet(u_out) \cup SeqToSet(s_out) :
            Occurrences(s_out, r) = Occurrences(u_out, r)

-----------------------------------------------------------------------------
(* C30: the bookkeeping of sorted mode *)

\* the number of entries the heap holds for the pair
HeapEntries(e) == Cardinality({k \in 1..Len(s_heap) : s_heap[k][2] = e})

\* C30: in sorted mode, after every snapshot and every record, a pair has
\* as many heap entries as its list in `active` has periods, no list in
\* `active` is empty, only the last period of a list can be open, and it is
\* open exactly when the pair is an edge of the current snapshot; neither
\* the look at the head of the heap nor the closing of a period meets a
\* pair that is missing from `active`.
C30_SortedBookkeeping ==
    /\ \A e \in AllPairs :
          HeapEntries(e) = IF e \in DOMAIN s_active THEN Len(s_active[e])
                           ELSE 0
    /\ \A e \in DOMAIN s_active :
          /\ s_active[e] # <<>>
          /\ \A k \in 1..(Len(s_active[e]) - 1) : s_active[e][k][2] # None
          /\ s_active[e][Len(s_active[e])][2] = None <=> e \in s_next_edges
    /\ s_next_edges \subseteq DOMAIN s_active
    /\ \A k \in 1..Len(s_heap) : s_heap[k][2] \in DOMAIN s_active
    /\ s_pc # "error"

\* a pair has reconnected while its closed period waits behind a pair
\* that is still open, after a record has been emitted
C30_Witness ==
    /\ s_out # <<>>
    /\ \E e \in DOMAIN s_active :
          /\ Len(s_active[e]) = 2
          /\ s_active[e][1][2] # None
          /\ s_active[e][2][2] = None
          /\ HeapEntries(e) = 2

====
